---- MODULE Spec2Model ----
(***************************************************************************)
(* A model of the YASK stencil kernel run-time: the run_solution driver    *)
(* with wave-front tiling and comm/compute overlap, the halo-exchange      *)
(* protocol between ranks, bounding-box discovery, rank set-up and the     *)
(* solution life-cycle.  One domain dimension ("x") is modelled for the    *)
(* run-time engine; bounding boxes are modelled in two dimensions.         *)
(***************************************************************************)
EXTENDS Integers, Sequences, FiniteSets, TLC

(***************************************************************************)
(* Bounds of the model.                                                    *)
(***************************************************************************)
\* Points in one rank's domain in the x dim (opts->_rank_sizes[x]).
RankSize == 3
\* Largest number of steps in one run_solution() call.
MaxSteps == 3

(***************************************************************************)
(* Integer helpers (macros of the kernel library).                         *)
(***************************************************************************)
\* Op applied to the value of v, with v evaluated once.
Bind(v, Op(_)) == CHOOSE y \in {Op(x) : x \in {v}} : TRUE
Max2(a, b) == IF a >= b THEN a ELSE b
Min2(a, b) == IF a <= b THEN a ELSE b
Abs(a) == IF a >= 0 THEN a ELSE -a
CEIL_DIV(n, d) == (n + d - 1) \div d
ROUND_UP(n, m) == CEIL_DIV(n, m) * m
ROUND_DOWN(n, m) == (n \div m) * m

(***************************************************************************)
(* The solution modelled by the engine: one non-scratch var "A" with a     *)
(* step dim and the domain dim x, written by one bundle in one pack.       *)
(***************************************************************************)
\* Halo of the var on each side in x (left and right halo sizes).
HaloSize == [left |-> 1, right |-> 1]
\* Number of step slots allocated for the var.
StepAlloc == 2
\* Vector fold in x (scalar build).
FoldPts == 1
\* Number of bundle packs.
NumPacks == 1
\* Values are kept in a small ring so that every input of a stencil
\* evaluation changes its result.
ValMod == 5
\* Lengths of the extended rank BB in the two dims of the BB search, and
\* the largest number of threads.
ExtLen0 == 3
ExtLen1 == 2
MaxThreads == 4
\* Largest number of ranks of a job in the solution life-cycle.
MaxEnvRanks == 4

\* A settings record c holds the number of ranks nr, the requested
\* wave-front steps wf, the region size rs in x, comm/compute overlap ovl,
\* shared-memory neighbours shm and the step range first..last passed to
\* run_solution().
Ranks(c) == 0..(c.nr - 1)

(***************************************************************************)
(* update_grid_info(): wave-front settings.                                *)
(***************************************************************************)
max_halos == Max2(HaloSize.left, HaloSize.right)
wf_steps(c) == Max2(c.wf, 0)
num_wf_shifts(c) ==
  IF wf_steps(c) > 0
    THEN (IF NumPacks * wf_steps(c) > 0 THEN NumPacks * wf_steps(c) - 1 ELSE 0)
    ELSE 0
wf_angle_none(c) == 0
wf_angle(c) ==
  IF c.rs < RankSize \/ c.nr > 1 THEN ROUND_UP(max_halos, FoldPts) ELSE 0
wf_shift_pts(c) == wf_angle(c) * num_wf_shifts(c)
\* The check that makes update_grid_info() throw.
GridInfoOk(c) == ~(c.nr > 1 /\ RankSize < max_halos + wf_shift_pts(c))
is_first_rank(c, r) == r = 0
is_last_rank(c, r) == r = c.nr - 1
left_wf_exts_none(c, r) == 0
left_wf_exts(c, r) == IF is_first_rank(c, r) THEN 0 ELSE wf_shift_pts(c)
right_wf_exts(c, r) == IF is_last_rank(c, r) THEN 0 ELSE wf_shift_pts(c)

(***************************************************************************)
(* find_bounding_boxes(): rank BB and extended BB.                         *)
(***************************************************************************)
rank_domain_offsets(c, r) == r * RankSize
rank_bb(c, r) ==
  [bb_begin |-> rank_domain_offsets(c, r),
   bb_end |-> rank_domain_offsets(c, r) + RankSize]
ext_bb(c, r) ==
  [bb_begin |-> rank_bb(c, r).bb_begin - left_wf_exts(c, r),
   bb_end |-> rank_bb(c, r).bb_end + right_wf_exts(c, r)]

(***************************************************************************)
(* allocMpiData(): halo-buffer ranges and the MPI interior.                *)
(***************************************************************************)
\* opts->_min_exterior.
MinExterior == 0
Sides == {"left", "right"}
OtherSide(sd) == IF sd = "left" THEN "right" ELSE "left"
\* Rank of the neighbour on a side, or -1 (MPI_PROC_NULL).
NeighborRank(c, r, sd) ==
  IF sd = "left" THEN (IF is_first_rank(c, r) THEN -1 ELSE r - 1)
  ELSE (IF is_last_rank(c, r) THEN -1 ELSE r + 1)
first_inner_idx(c, r) == rank_bb(c, r).bb_begin
last_inner_idx(c, r) == rank_bb(c, r).bb_end - 1
\* Size of the exchange: my halo on the side of the neighbour.
my_halo_sizes(c, sd) ==
  IF sd = "left" THEN HaloSize.left + wf_shift_pts(c)
  ELSE HaloSize.right + wf_shift_pts(c)
\* The neighbour's halo on its side facing this rank.
neigh_halo_sizes(c, sd) ==
  IF sd = "left" THEN HaloSize.right + wf_shift_pts(c)
  ELSE HaloSize.left + wf_shift_pts(c)
\* [copy_begin, copy_end) of the send buffer for the neighbour on side sd.
SendRange_short(c, r, sd) ==
  IF sd = "left"
    THEN [b |-> first_inner_idx(c, r),
          e |-> first_inner_idx(c, r) + neigh_halo_sizes(c, sd)]
    ELSE [b |-> last_inner_idx(c, r) - neigh_halo_sizes(c, sd),
          e |-> last_inner_idx(c, r)]
SendRange(c, r, sd) ==
  IF sd = "left"
    THEN [b |-> first_inner_idx(c, r),
          e |-> first_inner_idx(c, r) + neigh_halo_sizes(c, sd)]
    ELSE [b |-> last_inner_idx(c, r) + 1 - neigh_halo_sizes(c, sd),
          e |-> last_inner_idx(c, r) + 1]
\* [copy_begin, copy_end) of the receive buffer for the neighbour on side sd.
RecvRange(c, r, sd) ==
  IF sd = "left"
    THEN [b |-> first_inner_idx(c, r) - my_halo_sizes(c, sd),
          e |-> first_inner_idx(c, r)]
    ELSE [b |-> last_inner_idx(c, r) + 1,
          e |-> last_inner_idx(c, r) + 1 + my_halo_sizes(c, sd)]
mpi_interior_untrimmed(c, r) ==
  [bb_begin |-> ext_bb(c, r).bb_begin, bb_end |-> ext_bb(c, r).bb_end,
   bb_valid |-> (c.nr > 1 /\ c.ovl)]
mpi_interior(c, r) ==
  LET lb == IF NeighborRank(c, r, "left") # -1
              THEN Max2(ext_bb(c, r).bb_begin,
                        ROUND_UP(first_inner_idx(c, r) +
                                 Max2(MinExterior, neigh_halo_sizes(c, "left")),
                                 FoldPts))
              ELSE ext_bb(c, r).bb_begin
      re == IF NeighborRank(c, r, "right") # -1
              THEN Min2(ext_bb(c, r).bb_end,
                        ROUND_DOWN(last_inner_idx(c, r) + 1 -
                                   Max2(MinExterior, neigh_halo_sizes(c, "right")),
                                   FoldPts))
              ELSE ext_bb(c, r).bb_end
  IN [bb_begin |-> lb, bb_end |-> re, bb_valid |-> (c.nr > 1 /\ c.ovl)]
\* Is there a non-empty exterior section on the given side?
does_exterior_exist(c, r, is_left) ==
  IF is_left THEN mpi_interior(c, r).bb_begin > ext_bb(c, r).bb_begin
  ELSE mpi_interior(c, r).bb_end < ext_bb(c, r).bb_end
\* Overlap is active when some part of the rank is excluded by the flags.
is_overlap_active(f) == ~f.interior \/ ~f.left \/ ~f.right
AllFlags == [left |-> TRUE, right |-> TRUE, interior |-> TRUE]

(***************************************************************************)
(* Var storage of one rank: [slot][x] over the allocation in x, which is   *)
(* the rank domain padded by the halo and the wave-front extension.        *)
(***************************************************************************)
PadSize(c) == max_halos + wf_shift_pts(c)
AllocX(c, r) ==
  (rank_bb(c, r).bb_begin - PadSize(c))..(rank_bb(c, r).bb_end + PadSize(c) - 1)
\* Step index to slot (floored modulo).
_wrap_step(t) == t % StepAlloc
\* Direction of the stencil's step dependence: the bundle writes t + 1 from
\* t (or t - 1 from t in a reverse solution).
StencilDir(c) == IF c.last >= c.first THEN 1 ELSE -1
get_output_step_index(c, t) == t + StencilDir(c)
\* The stencil: a 3-point update with distinct coefficients.
calc_scalar(a, b, d) == (a + 2 * b + 3 * d + 1) % ValMod
\* Evaluate the bundle at input step t on every point of [b, e).
CalcRangeOf(v, so, si, b, e) ==
  [v EXCEPT ![so] =
     [x \in DOMAIN v[so] |->
        IF x >= b /\ x < e
          THEN calc_scalar(v[si][x - 1], v[si][x], v[si][x + 1])
          ELSE v[so][x]]]
CalcRange(c, v, t, b, e) ==
  Bind(<<v, _wrap_step(get_output_step_index(c, t)), _wrap_step(t), b, e>>,
       LAMBDA a : CalcRangeOf(a[1], a[2], a[3], a[4], a[5]))

(***************************************************************************)
(* Bounding box of the pack: the hull of its bundle's box, which for the   *)
(* full-domain bundle is the extended rank box, started from the zero      *)
(* tuple of domain dims.                                                   *)
(***************************************************************************)
PackBB(c, r) ==
  [bb_begin |-> Min2(0, ext_bb(c, r).bb_begin),
   bb_end |-> Max2(0, ext_bb(c, r).bb_end)]

(***************************************************************************)
(* shift_region(): boundaries of the region [base_start, base_stop)        *)
(* shifted shift_num times and trimmed to the pack box, the wave-front     *)
(* extensions and the current MPI section (flags f).                       *)
(***************************************************************************)
right_ext_start_noleft(rstart, int_begin, int_end) == Max2(rstart, int_end)
\* Start of the right exterior section: trimmed to the end of the interior
\* and also to int_begin, to avoid overlap with the left section.
right_ext_start(rstart, int_begin, int_end) ==
  Max2(Max2(rstart, int_end), int_begin)
shift_region(c, r, f, base_start, base_stop, shift_num) ==
  LET shift_amt == wf_angle(c) * shift_num
      s0 == base_start - shift_amt
      e0 == base_stop - shift_amt
      pbb == PackBB(c, r)
      s1 == Max2(s0, pbb.bb_begin)
      e1 == Min2(e0, pbb.bb_end)
      dbegin == rank_bb(c, r).bb_begin
      dend == rank_bb(c, r).bb_end
      s2 == IF s1 < dbegin /\ left_wf_exts(c, r) # 0
              THEN Max2(s1, dbegin - left_wf_exts(c, r) + shift_amt) ELSE s1
      e2 == IF e1 > dend /\ right_wf_exts(c, r) # 0
              THEN Min2(e1, dend + right_wf_exts(c, r) - shift_amt) ELSE e1
      int_begin ==
        IF wf_steps(c) > 0 /\ does_exterior_exist(c, r, TRUE)
          THEN mpi_interior(c, r).bb_begin + wf_shift_pts(c) - shift_amt
          ELSE mpi_interior(c, r).bb_begin
      int_end ==
        IF wf_steps(c) > 0 /\ does_exterior_exist(c, r, FALSE)
          THEN mpi_interior(c, r).bb_end - wf_shift_pts(c) + shift_amt
          ELSE mpi_interior(c, r).bb_end
      active == is_overlap_active(f)
      ext_missing == active /\ ~f.interior /\ ~does_exterior_exist(c, r, f.left)
      s3 == IF ~active THEN s2
            ELSE IF f.interior THEN Max2(s2, int_begin)
            ELSE IF f.left THEN s2
            ELSE right_ext_start(s2, int_begin, int_end)
      e3 == IF ~active THEN e2
            ELSE IF f.interior THEN Min2(e2, int_end)
            ELSE IF f.left THEN Min2(e2, int_begin)
            ELSE e2
  IN [ok |-> ~ext_missing /\ e3 > s3, begin |-> s3, end |-> e3]

(***************************************************************************)
(* calc_region() without temporal blocking: the time loop over the steps   *)
(* [start_t, stop_t) of one region, each pack evaluated on the shifted     *)
(* region.  st carries the storage v and the log of evaluations.           *)
(***************************************************************************)
RECURSIVE RegionTimeLoop(_, _, _, _, _, _, _, _, _)
RegionTimeLoop(c, r, f, st, base_start, base_stop, t, stop_t, shift_num) ==
  IF t = stop_t THEN st
  ELSE
    LET dir == IF stop_t >= t THEN 1 ELSE -1
        sr == shift_region(c, r, f, base_start, base_stop, shift_num)
        Eval(p) ==
          IF p.sr.ok
            THEN [v |-> CalcRange(c, p.st.v, p.t, p.sr.begin, p.sr.end),
                  log |-> Append(p.st.log,
                                 [t |-> p.t, b |-> p.sr.begin, e |-> p.sr.end,
                                  f |-> f])]
            ELSE p.st
    IN RegionTimeLoop(c, r, f, Bind([st |-> st, sr |-> sr, t |-> t], Eval),
                      base_start, base_stop,
                      t + dir, stop_t, shift_num + 1)
calc_region(c, r, f, st, base_start, base_stop, start_t, stop_t) ==
  RegionTimeLoop(c, r, f, st, base_start, base_stop, start_t, stop_t, 0)

(***************************************************************************)
(* run_solution(): spatial range of the rank loops and the loops over the  *)
(* regions of the rank, in ascending order.                                *)
(***************************************************************************)
RankBegin(c, r) == ext_bb(c, r).bb_begin
RankEnd(c, r) ==
  IF wf_steps(c) > 0 /\ right_wf_exts(c, r) = 0
    THEN ext_bb(c, r).bb_end + wf_shift_pts(c)
    ELSE ext_bb(c, r).bb_end
RankStride(c, r) ==
  IF c.rs >= RankSize THEN RankEnd(c, r) - RankBegin(c, r) ELSE c.rs
RECURSIVE RankLoops(_, _, _, _, _, _, _)
RankLoops(c, r, f, st, start, start_t, stop_t) ==
  IF start >= RankEnd(c, r) THEN st
  ELSE
    LET stop == Min2(start + RankStride(c, r), RankEnd(c, r))
        st1 == calc_region(c, r, f, st, start, stop, start_t, stop_t)
    IN RankLoops(c, r, f, st1, start + RankStride(c, r), start_t, stop_t)

(***************************************************************************)
(* Step window and dirty map of the var.  m.vf is the first valid step;    *)
(* the window holds StepAlloc consecutive steps and m.dirty is indexed by  *)
(* slot.                                                                   *)
(***************************************************************************)
Slots == 0..(StepAlloc - 1)
get_first_valid_step_index(m) == m.vf
get_last_valid_step_index(m) == m.vf + StepAlloc - 1
ValidSteps(m) == get_first_valid_step_index(m)..get_last_valid_step_index(m)
is_dirty(m, t) == m.dirty[_wrap_step(t)]
set_dirty(m, d, t) == [m EXCEPT !.dirty[_wrap_step(t)] = d]
\* Advance the window to hold step t; flags of steps that fall out are
\* cleared.
MoveWindow(m, t) ==
  LET nvf == IF t < get_first_valid_step_index(m) THEN t
             ELSE IF t > get_last_valid_step_index(m) THEN t - StepAlloc + 1
             ELSE m.vf
      kept == {u \in ValidSteps(m) : u >= nvf /\ u <= nvf + StepAlloc - 1}
  IN [vf |-> nvf,
      dirty |-> [s \in Slots |->
                   IF \E u \in kept : _wrap_step(u) = s
                     THEN m.dirty[s] ELSE FALSE]]
update_valid_step(m, t) == Bind(m, LAMBDA w : MoveWindow(w, t))

(***************************************************************************)
(* update_vars(): mark the output steps of the steps [start, stop).        *)
(***************************************************************************)
\* The update of the output var for input step t.
UpdateOutputVar_assign(c, m, t, mark_dirty) ==
  set_dirty(update_valid_step(m, get_output_step_index(c, t)), mark_dirty,
            get_output_step_index(c, t))
UpdateOutputVar(c, m, t, mark_dirty) ==
  LET t_out == get_output_step_index(c, t)
      m1 == update_valid_step(m, t_out)
  IN IF mark_dirty THEN set_dirty(m1, TRUE, t_out) ELSE m1
RECURSIVE update_vars(_, _, _, _, _)
update_vars(c, m, start, stop, mark_dirty) ==
  IF start = stop THEN m
  ELSE
    LET stride == IF start > stop THEN -1 ELSE 1
    IN update_vars(c, UpdateOutputVar(c, m, start, mark_dirty),
                   start + stride, stop, mark_dirty)

(***************************************************************************)
(* exchange_halos(): what to swap and the sequence of phases.              *)
(***************************************************************************)
DirtySteps(m) == {t \in ValidSteps(m) : is_dirty(m, t)}
SetMin(S) == CHOOSE x \in S : \A y \in S : x <= y
SetMax(S) == CHOOSE x \in S : \A y \in S : x >= y
\* varsToSwap (is the var in it), firstStepsToSwap, lastStepsToSwap.
StepsToSwap(m) ==
  IF DirtySteps(m) = {} THEN [any |-> FALSE, first |-> 0, last |-> 0]
  ELSE [any |-> TRUE, first |-> SetMin(DirtySteps(m)),
        last |-> SetMax(DirtySteps(m))]
steps_to_do_nounpack(sw, f) ==
  IF ~sw.any THEN << >>
  ELSE (IF f.left \/ f.right THEN <<"halo_irecv", "halo_pack_isend">> ELSE << >>)
       \o (IF f.interior THEN <<"halo_final">> ELSE << >>)
steps_to_do_all(sw, f) ==
  IF ~sw.any THEN << >>
  ELSE <<"halo_irecv", "halo_pack_isend", "halo_unpack", "halo_final">>
steps_to_do(sw, f) ==
  IF ~sw.any THEN << >>
  ELSE (IF f.left \/ f.right THEN <<"halo_irecv", "halo_pack_isend">> ELSE << >>)
       \o (IF f.interior THEN <<"halo_unpack", "halo_final">> ELSE << >>)
\* get_elements_in_slice(): steps [first, last] of [b, e) in row-major
\* order (step, then x).
get_elements_in_slice(v, first, last, rg) ==
  LET w == rg.e - rg.b
  IN [k \in 1..((last - first + 1) * w) |->
        v[_wrap_step(first + ((k - 1) \div w))][rg.b + ((k - 1) % w)]]
\* set_elements_in_slice(): the inverse copy from a buffer into the var.
set_elements_in_slice(v, buf, first, last, rg) ==
  LET w == rg.e - rg.b
  IN [s \in DOMAIN v |->
        [x \in DOMAIN v[s] |->
           IF x >= rg.b /\ x < rg.e /\
              (\E t \in first..last : _wrap_step(t) = s)
             THEN LET t == SetMax({u \in first..last : _wrap_step(u) = s})
                  IN buf[(t - first) * w + (x - rg.b) + 1]
             ELSE v[s][x]]]

(***************************************************************************)
(* State of the run-time engine.                                           *)
(***************************************************************************)
VARIABLES
  cfg,      \* settings of the run (fixed by prepare_solution)
  ctl,      \* per rank: position in run_solution() and in exchange_halos()
  flags,    \* per rank: do_mpi_left, do_mpi_right, do_mpi_interior
  vals,     \* per rank: storage of the var, [slot][x]
  meta,     \* per rank: step window and dirty map of the var
  evalLog,  \* per rank: the evaluations made, in order
  swap,     \* per rank: first/last steps to swap of the current exchange,
            \* and the dirty steps found at every exchange_halos() call
  lock,     \* per rank and side: lock of the shm send buffer
  shmBuf,   \* per rank and side: contents of the shm send buffer
  chan,     \* per rank and side: MPI messages sent and not yet received
  recvBuf,  \* per rank and side: contents of the MPI receive buffer
  sendReq,  \* per rank and side: MPI send request
  recvReq,  \* per rank and side: MPI receive request
  sendLog   \* per rank and side: the stride index of every halo message
            \* packed for the neighbour, in order (-1: the initial exchange)

\* State of find_bounding_box() for one bundle.
VARIABLES
  bbIn,        \* the bundle: valid points, threads, visit order of the tuples
  bb_lists,    \* per thread: the BBs found in its slice (after it has run)
  _bb_list,    \* the final list of BBs of the bundle
  _bundle_bb,  \* the overall BB of the bundle
  bbPc         \* position in find_bounding_box()

bbVars == <<bbIn, bb_lists, _bb_list, _bundle_bb, bbPc>>
\* The solution life-cycle: the settings of the job, the options and the
\* context of each rank, the last API call and whether prepare_solution()
\* has been called.
VARIABLES lenv, opts, kctx, lastCall, prepare_called
lifeVars == <<lenv, opts, kctx, lastCall, prepare_called>>
\* State of one calc_region() call with temporal blocking.
VARIABLES tb
\* State of one calc_sub_block_vec() call.
VARIABLES vec
\* State of one exchange_halos() call on two neighbouring ranks with
\* several vars.
VARIABLES tx
\* State of the calc_region() calls of one stride of run_solution() on one
\* region: the count of wave-front shifts.
VARIABLES wfr
\* State of the threads of one rank during one stride of run_solution():
\* the driver thread, the region threads and who is using the MPI request
\* handles of the var.
VARIABLES poke
\* State of one StencilBundleBase::calc_mini_block() call per pack by one
\* region thread: the bundles, the block threads and the sub-blocks run.
VARIABLES mbk
\* State of one scan of a generated loop nest.
VARIABLES scn
\* State of one yask_for() call.
VARIABLES yf
\* A vector_set and the sequence of values it should hold.
VARIABLES vset
VARIABLES skw
auxVars == <<poke, mbk, scn, yf, vset, skw>>
AuxOff ==
  poke = << >> /\ mbk = << >> /\ scn = << >> /\ yf = << >> /\ vset = << >> /\ skw = << >>
extraVars == <<tb, vec, tx, wfr, auxVars>>
ExtraOff == tb = << >> /\ vec = << >> /\ tx = << >> /\ wfr = << >> /\ AuxOff
otherVars == <<bbVars, lifeVars, extraVars>>
BBOff ==
  /\ bbPc = "off" /\ bbIn = << >> /\ bb_lists = << >>
  /\ _bb_list = << >> /\ _bundle_bb = << >>
LifeOff ==
  /\ lenv = << >> /\ opts = << >> /\ kctx = << >>
  /\ lastCall = << >> /\ prepare_called = FALSE
rankVars == <<ctl, flags, vals, meta, evalLog, swap>>
commVars == <<lock, shmBuf, chan, recvBuf, sendReq, recvReq, sendLog>>
engineVars == <<cfg, ctl, flags, vals, meta, evalLog, swap,
                lock, shmBuf, chan, recvBuf, sendReq, recvReq, sendLog>>
\* The state outside the variables of auxVars.
baseVars == <<engineVars, bbVars, lifeVars, tb, vec, tx, wfr>>
pokeFrame == <<baseVars, mbk, scn, yf, vset, skw>>
mbkFrame == <<baseVars, poke, scn, yf, vset, skw>>
scnFrame == <<baseVars, poke, mbk, yf, vset, skw>>
yfFrame == <<baseVars, poke, mbk, scn, vset, skw>>
vsetFrame == <<baseVars, poke, mbk, scn, yf, skw>>
skwFrame == <<baseVars, poke, mbk, scn, yf, vset>>

\* Settings accepted by prepare_solution(); overlap and shm only matter
\* with more than one rank, and three ranks are run for two steps.
RunSettings ==
  {c \in [nr : {1, 2, 3}, wf : {0, 1, 2}, rs : {2, RankSize}, ovl : BOOLEAN,
          shm : BOOLEAN, first : 0..(MaxSteps - 1), last : 0..(MaxSteps - 1),
          dirty0 : BOOLEAN] :
     /\ GridInfoOk(c)
     /\ c.nr = 1 => (~c.ovl /\ ~c.shm)
     /\ c.nr = 3 => (c.rs = RankSize /\ c.dirty0 /\ c.first = 0 /\ c.last = 1)
     /\ c.first = 0 \/ c.first = MaxSteps - 1}

\* Initial value of the var at global index x.
InitVal(x) == (x * x + 2) % ValMod
InDomain(c, r, x) == x >= rank_bb(c, r).bb_begin /\ x < rank_bb(c, r).bb_end
InGlobal(c, x) == x >= 0 /\ x < c.nr * RankSize
\* Storage before the run: step c.first holds the initial values; when the
\* application wrote them on every rank (dirty0) the halos that belong to
\* a neighbour are stale, otherwise they are up to date.
InitVals(c, r) ==
  [s \in Slots |->
     [x \in AllocX(c, r) |->
        IF s # _wrap_step(c.first) THEN 0
        ELSE IF c.dirty0 /\ InGlobal(c, x) /\ ~InDomain(c, r, x)
               THEN (InitVal(x) + 1) % ValMod
        ELSE InitVal(x)]]
InitMeta(c) ==
  LET m0 == [vf |-> 0, dirty |-> [s \in Slots |-> FALSE]]
      m1 == update_valid_step(m0, c.first)
  IN IF c.dirty0 THEN set_dirty(m1, TRUE, c.first) ELSE m1

\* run_solution(): the step loop.
step_dir(c) == IF c.last >= c.first THEN 1 ELSE -1
stride_t_nowf(c) == step_dir(c)
stride_t(c) == Max2(wf_steps(c), 1) * step_dir(c)
end_t(c) == c.last + step_dir(c)
num_t(c) == CEIL_DIV(Abs(end_t(c) - c.first), Abs(stride_t(c)))
start_t(c, i) == c.first + i * stride_t(c)
stop_t_unclamped(c, i) == start_t(c, i) + stride_t(c)
stop_t(c, i) ==
  IF stride_t(c) > 0 THEN Min2(start_t(c, i) + stride_t(c), end_t(c))
  ELSE Max2(start_t(c, i) + stride_t(c), end_t(c))

\* The visits of exchange_halos() that do something, in order: each phase
\* of steps_to_do over the neighbours (left, then right).
using_shm(c, r, sd) == c.shm /\ NeighborRank(c, r, sd) # -1
Visits_by_neighbor(c, r, sw, f) ==
  LET todo == steps_to_do(sw, f)
      nbs == SelectSeq(<<"left", "right">>,
                       LAMBDA sd : NeighborRank(c, r, sd) # -1)
      all == [k \in 1..(Len(todo) * Len(nbs)) |->
                [step |-> todo[((k - 1) % Len(todo)) + 1],
                 sd |-> nbs[((k - 1) \div Len(todo)) + 1]]]
  IN SelectSeq(all, LAMBDA vis :
                 ~(vis.step = "halo_irecv" /\ using_shm(c, r, vis.sd)))
Visits(c, r, sw, f) ==
  LET todo == steps_to_do(sw, f)
      nbs == SelectSeq(<<"left", "right">>,
                       LAMBDA sd : NeighborRank(c, r, sd) # -1)
      all == [k \in 1..(Len(todo) * Len(nbs)) |->
                [step |-> todo[((k - 1) \div Len(nbs)) + 1],
                 sd |-> nbs[((k - 1) % Len(nbs)) + 1]]]
  IN SelectSeq(all, LAMBDA vis :
                 ~(vis.step = "halo_irecv" /\ using_shm(c, r, vis.sd)))
InExchange(r) == ctl[r].pc \in {"xinit", "xext", "xmain"}
CurVisits(r) == Visits(cfg, r, swap[r], flags[r])
CurVisit(r) == CurVisits(r)[ctl[r].vi]

\* Where run_solution() continues after the exchange_halos() call made at
\* position pc.
Continue_noreset(c, pc, idx) ==
  IF pc = "xinit"
    THEN [pc |-> IF 0 < num_t(c) THEN "loop" ELSE "done", idx |-> 0,
          flags |-> AllFlags]
  ELSE IF pc = "xext"
    THEN [pc |-> "main", idx |-> idx,
          flags |-> [left |-> FALSE, right |-> FALSE, interior |-> TRUE]]
  ELSE [pc |-> IF idx + 1 < num_t(c) THEN "loop" ELSE "done", idx |-> idx + 1,
        flags |-> [left |-> ~mpi_interior(c, 0).bb_valid,
                   right |-> ~mpi_interior(c, 0).bb_valid, interior |-> TRUE]]
Continue(c, pc, idx) ==
  IF pc = "xinit"
    THEN [pc |-> IF 0 < num_t(c) THEN "loop" ELSE "done", idx |-> 0,
          flags |-> AllFlags]
  ELSE IF pc = "xext"
    THEN [pc |-> "main", idx |-> idx,
          flags |-> [left |-> FALSE, right |-> FALSE, interior |-> TRUE]]
  ELSE [pc |-> IF idx + 1 < num_t(c) THEN "loop" ELSE "done", idx |-> idx + 1,
        flags |-> AllFlags]

(***************************************************************************)
(* MPIBuf: the lock of a send buffer in shared memory.  The sender owns    *)
(* the buffer while it is ok to write and the receiver while it is ok to   *)
(* read; the waits only poll the lock.                                     *)
(***************************************************************************)
shm_lock_init == "ok_to_write"
is_ok_to_read(l) == l = "ok_to_read"
is_ok_to_write(l) == l = "ok_to_write"
mark_write_done(l) == "ok_to_read"
mark_read_done(l) == "ok_to_write"

\* State of rank r on calling exchange_halos() at position pcx with var
\* state m and flags f: the call returns at once when there is nothing to
\* do (fewer than two ranks, or no dirty step).
CallExchange(r, pcx, idx, m, f) ==
  LET sw == [any |-> StepsToSwap(m).any, first |-> StepsToSwap(m).first,
             last |-> StepsToSwap(m).last,
             calls |-> Append(swap[r].calls,
                              [pc |-> pcx, idx |-> idx, dirty |-> DirtySteps(m)])]
      vs == IF cfg.nr < 2 THEN << >> ELSE Visits(cfg, r, sw, f)
      k == Continue(cfg, pcx, idx)
  IN IF vs = << >>
       THEN [ctl |-> [pc |-> k.pc, idx |-> k.idx, vi |-> 0, cs |-> FALSE],
             flags |-> k.flags, swap |-> sw]
       ELSE [ctl |-> [pc |-> pcx, idx |-> idx, vi |-> 1, cs |-> FALSE],
             flags |-> f, swap |-> sw]
\* State of rank r after finishing its current visit.
EndVisit(r) ==
  LET k == Continue(cfg, ctl[r].pc, ctl[r].idx)
  IN IF ctl[r].vi < Len(CurVisits(r))
       THEN [ctl |-> [ctl[r] EXCEPT !.vi = @ + 1, !.cs = FALSE],
             flags |-> flags[r]]
       ELSE [ctl |-> [pc |-> k.pc, idx |-> k.idx, vi |-> 0, cs |-> FALSE],
             flags |-> k.flags]

EngineStart(settings) ==
  /\ cfg \in settings
  /\ ctl = [r \in Ranks(cfg) |-> [pc |-> "call", idx |-> 0, vi |-> 0, cs |-> FALSE]]
  /\ flags = [r \in Ranks(cfg) |-> AllFlags]
  /\ vals = [r \in Ranks(cfg) |-> InitVals(cfg, r)]
  /\ meta = [r \in Ranks(cfg) |-> InitMeta(cfg)]
  /\ evalLog = [r \in Ranks(cfg) |-> << >>]
  /\ swap = [r \in Ranks(cfg) |-> [any |-> FALSE, first |-> 0, last |-> 0,
                                    calls |-> << >>]]
  /\ lock = [r \in Ranks(cfg) |-> [sd \in Sides |-> shm_lock_init]]
  /\ shmBuf = [r \in Ranks(cfg) |-> [sd \in Sides |-> << >>]]
  /\ chan = [r \in Ranks(cfg) |-> [sd \in Sides |-> << >>]]
  /\ recvBuf = [r \in Ranks(cfg) |-> [sd \in Sides |-> << >>]]
  /\ sendReq = [r \in Ranks(cfg) |-> [sd \in Sides |-> "null"]]
  /\ recvReq = [r \in Ranks(cfg) |-> [sd \in Sides |-> "null"]]
  /\ sendLog = [r \in Ranks(cfg) |-> [sd \in Sides |-> << >>]]
  /\ BBOff /\ LifeOff /\ ExtraOff
EngineInit == EngineStart(RunSettings)

\* run_solution() up to and including the call of the initial
\* exchange_halos().
RunSolution(r) ==
  /\ ctl[r].pc = "call"
  /\ \E x \in {CallExchange(r, "xinit", 0, meta[r], AllFlags)} :
        /\ ctl' = [ctl EXCEPT ![r] = x.ctl]
        /\ flags' = [flags EXCEPT ![r] = x.flags]
        /\ swap' = [swap EXCEPT ![r] = x.swap]
  /\ UNCHANGED <<otherVars, cfg, vals, meta, evalLog, commVars>>

mark_dirty_ext_written(c, r) == does_exterior_exist(c, r, TRUE)
\* After the exterior passes the vars are marked dirty even if not actually
\* written by this rank.
mark_dirty_ext(c, r) == TRUE
\* The exterior passes of one stride (left, then right), update_vars() and
\* the call of exchange_halos() that starts the exchange.
RECURSIVE ExteriorPasses(_, _, _)
ExteriorPasses(r, st, sides) ==
  IF sides = << >> THEN st
  ELSE
    LET is_left == Head(sides)
        Pass(s) ==
          IF does_exterior_exist(cfg, r, is_left)
            THEN RankLoops(cfg, r,
                           [left |-> is_left, right |-> ~is_left,
                            interior |-> FALSE],
                           s, RankBegin(cfg, r), start_t(cfg, ctl[r].idx),
                           stop_t(cfg, ctl[r].idx))
            ELSE s
    IN ExteriorPasses(r, Bind(st, Pass), Tail(sides))
CalcExterior(r) ==
  /\ ctl[r].pc = "loop"
  /\ mpi_interior(cfg, r).bb_valid
  /\ \E st \in {ExteriorPasses(r, [v |-> vals[r], log |-> evalLog[r]],
                                  <<TRUE, FALSE>>)},
        m1 \in {update_vars(cfg, meta[r], start_t(cfg, ctl[r].idx),
                            stop_t(cfg, ctl[r].idx), mark_dirty_ext(cfg, r))} :
     \E x \in {CallExchange(r, "xext", ctl[r].idx, m1,
                             [left |-> TRUE, right |-> TRUE,
                              interior |-> FALSE])} :
        /\ vals' = [vals EXCEPT ![r] = st.v]
        /\ evalLog' = [evalLog EXCEPT ![r] = st.log]
        /\ meta' = [meta EXCEPT ![r] = m1]
        /\ ctl' = [ctl EXCEPT ![r] = x.ctl]
        /\ flags' = [flags EXCEPT ![r] = x.flags]
        /\ swap' = [swap EXCEPT ![r] = x.swap]
  /\ UNCHANGED <<otherVars, cfg, commVars>>

\* The rank loops of one stride over the whole rank, or over the interior
\* after the exterior passes; update_vars() and the call of
\* exchange_halos().
CalcRank(r) ==
  /\ \/ ctl[r].pc = "loop" /\ ~mpi_interior(cfg, r).bb_valid
     \/ ctl[r].pc = "main"
  /\ \E st \in {RankLoops(cfg, r, flags[r],
                             [v |-> vals[r], log |-> evalLog[r]],
                             RankBegin(cfg, r), start_t(cfg, ctl[r].idx),
                             stop_t(cfg, ctl[r].idx))},
        m1 \in {update_vars(cfg, meta[r], start_t(cfg, ctl[r].idx),
                            stop_t(cfg, ctl[r].idx),
                            flags[r].left \/ flags[r].right)} :
     \E x \in {CallExchange(r, "xmain", ctl[r].idx, m1, flags[r])} :
        /\ vals' = [vals EXCEPT ![r] = st.v]
        /\ evalLog' = [evalLog EXCEPT ![r] = st.log]
        /\ meta' = [meta EXCEPT ![r] = m1]
        /\ ctl' = [ctl EXCEPT ![r] = x.ctl]
        /\ flags' = [flags EXCEPT ![r] = x.flags]
        /\ swap' = [swap EXCEPT ![r] = x.swap]
  /\ UNCHANGED <<otherVars, cfg, commVars>>

\* Completion of the current visit of rank r.
FinishVisit(r) ==
  \E k \in {EndVisit(r)} :
    /\ ctl' = [ctl EXCEPT ![r] = k.ctl]
    /\ flags' = [flags EXCEPT ![r] = k.flags]

\* halo_irecv: MPI_Irecv() into the receive buffer.
HaloIrecv(r) ==
  /\ InExchange(r)
  /\ CurVisit(r).step = "halo_irecv"
  /\ recvReq' = [recvReq EXCEPT ![r][CurVisit(r).sd] = "posted"]
  /\ FinishVisit(r)
  /\ UNCHANGED <<otherVars, cfg, vals, meta, evalLog, swap, lock, shmBuf, chan, recvBuf,
                 sendReq, sendLog>>

HaloPackWait_nowait(r) ==
  /\ InExchange(r)
  /\ CurVisit(r).step = "halo_pack_isend"
  /\ using_shm(cfg, r, CurVisit(r).sd)
  /\ ~ctl[r].cs
  /\ ctl' = [ctl EXCEPT ![r].cs = TRUE]
  /\ UNCHANGED <<otherVars, cfg, flags, vals, meta, evalLog, swap, commVars>>
\* halo_pack_isend with shm: wait_for_ok_to_write() returns.
HaloPackWait(r) ==
  /\ InExchange(r)
  /\ CurVisit(r).step = "halo_pack_isend"
  /\ using_shm(cfg, r, CurVisit(r).sd)
  /\ ~ctl[r].cs
  /\ is_ok_to_write(lock[r][CurVisit(r).sd])
  /\ ctl' = [ctl EXCEPT ![r].cs = TRUE]
  /\ UNCHANGED <<otherVars, cfg, flags, vals, meta, evalLog, swap, commVars>>

\* halo_pack_isend: pack the send buffer, then mark_write_done() or
\* MPI_Isend().
HaloPackIsend(r) ==
  /\ InExchange(r)
  /\ CurVisit(r).step = "halo_pack_isend"
  /\ using_shm(cfg, r, CurVisit(r).sd) => ctl[r].cs
  /\ LET sd == CurVisit(r).sd
         buf == get_elements_in_slice(vals[r], swap[r].first, swap[r].last,
                                      SendRange(cfg, r, sd))
     IN IF using_shm(cfg, r, sd)
          THEN /\ shmBuf' = [shmBuf EXCEPT ![r][sd] = buf]
               /\ lock' = [lock EXCEPT ![r][sd] = mark_write_done(@)]
               /\ UNCHANGED <<chan, sendReq>>
          ELSE /\ chan' = [chan EXCEPT ![r][sd] =
                             Append(@, [data |-> buf, sent |-> FALSE])]
               /\ sendReq' = [sendReq EXCEPT ![r][sd] = "active"]
               /\ UNCHANGED <<shmBuf, lock>>
  /\ sendLog' = [sendLog EXCEPT ![r][CurVisit(r).sd] =
                   Append(@, IF ctl[r].pc = "xinit" THEN -1 ELSE ctl[r].idx)]
  /\ FinishVisit(r)
  /\ UNCHANGED <<otherVars, cfg, vals, meta, evalLog, swap, recvBuf, recvReq>>

\* halo_unpack with shm: wait_for_ok_to_read() on the neighbour's send
\* buffer returns.
HaloUnpackWait(r) ==
  /\ InExchange(r)
  /\ CurVisit(r).step = "halo_unpack"
  /\ using_shm(cfg, r, CurVisit(r).sd)
  /\ ~ctl[r].cs
  /\ LET sd == CurVisit(r).sd
         n == NeighborRank(cfg, r, sd)
     IN is_ok_to_read(lock[n][OtherSide(sd)])
  /\ ctl' = [ctl EXCEPT ![r].cs = TRUE]
  /\ UNCHANGED <<otherVars, cfg, flags, vals, meta, evalLog, swap, commVars>>

HaloUnpack_nomark(r) ==
  /\ InExchange(r)
  /\ CurVisit(r).step = "halo_unpack"
  /\ LET sd == CurVisit(r).sd
         n == NeighborRank(cfg, r, sd)
         shm == using_shm(cfg, r, sd)
         buf == IF shm THEN shmBuf[n][OtherSide(sd)] ELSE recvBuf[r][sd]
     IN /\ shm => ctl[r].cs
        /\ ~shm => recvReq[r][sd] # "posted"
        /\ vals' = [vals EXCEPT ![r] =
                      set_elements_in_slice(@, buf, swap[r].first, swap[r].last,
                                            RecvRange(cfg, r, sd))]
        /\ recvReq' = [recvReq EXCEPT ![r][sd] = IF shm THEN @ ELSE "null"]
        /\ UNCHANGED lock
  /\ FinishVisit(r)
  /\ UNCHANGED <<otherVars, cfg, meta, evalLog, swap, shmBuf, chan, recvBuf, sendReq,
                 sendLog>>
\* halo_unpack: (MPI_Wait() on the receive request, then) unpack the buffer
\* into the halo, then mark_read_done() with shm.
HaloUnpack(r) ==
  /\ InExchange(r)
  /\ CurVisit(r).step = "halo_unpack"
  /\ LET sd == CurVisit(r).sd
         n == NeighborRank(cfg, r, sd)
         shm == using_shm(cfg, r, sd)
         buf == IF shm THEN shmBuf[n][OtherSide(sd)] ELSE recvBuf[r][sd]
     IN /\ shm => ctl[r].cs
        /\ ~shm => recvReq[r][sd] # "posted"
        /\ vals' = [vals EXCEPT ![r] =
                      set_elements_in_slice(@, buf, swap[r].first, swap[r].last,
                                            RecvRange(cfg, r, sd))]
        /\ IF shm
             THEN /\ lock' = [lock EXCEPT ![n][OtherSide(sd)] = mark_read_done(@)]
                  /\ UNCHANGED recvReq
             ELSE /\ recvReq' = [recvReq EXCEPT ![r][sd] = "null"]
                  /\ UNCHANGED lock
  /\ FinishVisit(r)
  /\ UNCHANGED <<otherVars, cfg, meta, evalLog, swap, shmBuf, chan, recvBuf, sendReq,
                 sendLog>>

\* Clear the dirty flag of every dirty step in [first, last].
MarkClean_first(m, si, last) ==
  IF si > last THEN m ELSE set_dirty(m, FALSE, si)
RECURSIVE MarkClean(_, _, _)
MarkClean(m, si, last) ==
  IF si > last THEN m
  ELSE MarkClean(IF is_dirty(m, si) THEN set_dirty(m, FALSE, si) ELSE m,
                 si + 1, last)
\* halo_final: MPI_Wait() on the send request, then mark the swapped steps
\* clean.
HaloFinal(r) ==
  /\ InExchange(r)
  /\ CurVisit(r).step = "halo_final"
  /\ LET sd == CurVisit(r).sd
     IN /\ ~using_shm(cfg, r, sd) => sendReq[r][sd] # "active"
        /\ sendReq' = [sendReq EXCEPT ![r][sd] =
                         IF using_shm(cfg, r, sd) THEN @ ELSE "null"]
  /\ meta' = [meta EXCEPT ![r] =
               IF ctl[r].vi = Len(CurVisits(r))
                 THEN MarkClean(@, swap[r].first, swap[r].last) ELSE @]
  /\ FinishVisit(r)
  /\ UNCHANGED <<otherVars, cfg, vals, evalLog, swap, lock, shmBuf, chan, recvBuf, recvReq,
                 sendLog>>

\* The MPI library matches the oldest message of a sender with the posted
\* receive of its neighbour and completes both requests.
MpiTransfer(r, sd) ==
  /\ NeighborRank(cfg, r, sd) # -1
  /\ chan[r][sd] # << >>
  /\ LET n == NeighborRank(cfg, r, sd)
         msg == Head(chan[r][sd])
     IN /\ recvReq[n][OtherSide(sd)] = "posted"
        /\ recvBuf' = [recvBuf EXCEPT ![n][OtherSide(sd)] = msg.data]
        /\ recvReq' = [recvReq EXCEPT ![n][OtherSide(sd)] = "complete"]
        /\ sendReq' = [sendReq EXCEPT ![r][sd] =
                         IF msg.sent THEN @ ELSE "complete"]
  /\ chan' = [chan EXCEPT ![r][sd] = Tail(@)]
  /\ UNCHANGED <<otherVars, cfg, rankVars, lock, shmBuf, sendLog>>
\* The MPI library may complete a send before the receive is matched, after
\* copying the message out of the send buffer.
MpiBufferedSend(r, sd) ==
  /\ NeighborRank(cfg, r, sd) # -1
  /\ sendReq[r][sd] = "active"
  /\ chan[r][sd] # << >>
  /\ ~chan[r][sd][Len(chan[r][sd])].sent
  /\ chan' = [chan EXCEPT ![r][sd][Len(chan[r][sd])].sent = TRUE]
  /\ sendReq' = [sendReq EXCEPT ![r][sd] = "complete"]
  /\ UNCHANGED <<otherVars, cfg, rankVars, lock, shmBuf, recvBuf, recvReq, sendLog>>

EngineNext ==
  \/ \E r \in Ranks(cfg) :
       \/ RunSolution(r)
       \/ CalcExterior(r)
       \/ CalcRank(r)
       \/ HaloIrecv(r)
       \/ HaloPackWait(r)
       \/ HaloPackIsend(r)
       \/ HaloUnpackWait(r)
       \/ HaloUnpack(r)
       \/ HaloFinal(r)
  \/ \E r \in Ranks(cfg), sd \in Sides :
       \/ MpiTransfer(r, sd)
       \/ MpiBufferedSend(r, sd)

Spec == EngineInit /\ [][EngineNext]_engineVars

(***************************************************************************)
(* run_ref(): the reference driver, evaluated on all ranks in lock step.   *)
(* S.V is the storage of every rank and S.m the var state, which is the    *)
(* same on every rank.                                                     *)
(***************************************************************************)
\* Effect of exchange_halos() on rank r once every rank has completed it.
RefSwapRank(c, V, sw, r) ==
  LET from(v, sd) ==
        IF NeighborRank(c, r, sd) = -1 THEN v
        ELSE set_elements_in_slice(
               v,
               get_elements_in_slice(V[NeighborRank(c, r, sd)], sw.first,
                                     sw.last,
                                     SendRange(c, NeighborRank(c, r, sd),
                                               OtherSide(sd))),
               sw.first, sw.last, RecvRange(c, r, sd))
  IN from(from(V[r], "left"), "right")
RefExchange(c, S) ==
  LET sw == StepsToSwap(S.m)
  IN IF c.nr < 2 \/ ~sw.any THEN S
     ELSE [V |-> [r \in Ranks(c) |-> RefSwapRank(c, S.V, sw, r)],
           m |-> MarkClean(S.m, sw.first, sw.last)]
\* One step of the reference: the bundle at every point of the rank box.
RefStep(c, S, t) ==
  LET S1 == RefExchange(c, S)
  IN [V |-> [r \in Ranks(c) |->
               CalcRange(c, S1.V[r], t, rank_bb(c, r).bb_begin,
                         rank_bb(c, r).bb_end)],
      m |-> update_vars(c, S1.m, t, t + step_dir(c), TRUE)]
RECURSIVE RefLoop(_, _, _)
RefLoop(c, S, t) ==
  IF t = end_t(c) THEN S ELSE RefLoop(c, RefStep(c, S, t), t + step_dir(c))
run_ref(c) ==
  LET S0 == [V |-> [r \in Ranks(c) |-> InitVals(c, r)], m |-> InitMeta(c)]
  IN RefExchange(c, RefLoop(c, RefExchange(c, S0), c.first))

AllDone == \A r \in Ranks(cfg) : ctl[r].pc = "done"
DomainX(c, r) == rank_bb(c, r).bb_begin..(rank_bb(c, r).bb_end - 1)
HaloX(c, r) ==
  (rank_bb(c, r).bb_begin - HaloSize.left)..(rank_bb(c, r).bb_end - 1 + HaloSize.right)

(***************************************************************************)
(* Fair behaviours of the engine: every rank keeps running its             *)
(* run_solution() call and the MPI library keeps making progress.          *)
(***************************************************************************)
RankStep(r) ==
  /\ r \in Ranks(cfg)
  /\ \/ RunSolution(r)
     \/ CalcExterior(r)
     \/ CalcRank(r)
     \/ HaloIrecv(r)
     \/ HaloPackWait(r)
     \/ HaloPackIsend(r)
     \/ HaloUnpackWait(r)
     \/ HaloUnpack(r)
     \/ HaloFinal(r)
MpiStep == \E r \in Ranks(cfg), sd \in Sides : MpiTransfer(r, sd)
\* The multi-rank runs of steps 0 and 1 after the application initialised
\* the var on every rank; three ranks share memory and use no wave-fronts.
FairSettings ==
  {c \in RunSettings :
     /\ c.nr >= 2
     /\ c.first = 0 /\ c.last = 1 /\ c.dirty0
     /\ c.nr = 3 => (c.wf = 0 /\ c.shm)}
FairInit == EngineStart(FairSettings)
FairSpec ==
  /\ FairInit
  /\ [][EngineNext]_engineVars
  /\ \A r \in 0..2 : WF_engineVars(RankStep(r))
  /\ WF_engineVars(MpiStep)


(***************************************************************************)
(* find_bounding_box(): the BBs of a bundle with a sub-domain condition,   *)
(* in two domain dims.  Points and lengths are pairs; dim 1 is the outer   *)
(* dim (odim) that is cut into one slice per thread.                       *)
(***************************************************************************)
nddims == 2
odim == 1
ExtBegin == <<1, 0>>
ExtEnd == <<1 + ExtLen0, ExtLen1>>
PointsOf(b, e) == {pt \in (b[1]..(e[1] - 1)) \X (b[2]..(e[2] - 1)) : TRUE}
bb_size(bb) ==
  Max2(bb.bb_end[1] - bb.bb_begin[1], 0) * Max2(bb.bb_end[2] - bb.bb_begin[2], 0)
is_in_bb(bb, pt) ==
  \A i \in 1..nddims : pt[i] >= bb.bb_begin[i] /\ pt[i] < bb.bb_end[i]
\* visitAllPoints(): the offsets of a box of the given lengths in the order
\* of its layout, with the first or the last dim as the inner one.
visitAllPoints(len, first_inner) ==
  IF len[1] <= 0 \/ len[2] <= 0 THEN << >>
  ELSE [k \in 1..(len[1] * len[2]) |->
          IF first_inner THEN <<(k - 1) % len[1], (k - 1) \div len[1]>>
          ELSE <<(k - 1) \div len[2], (k - 1) % len[2]>>]
IsNewValid_noseen(in, cur, pt) == pt \in in.valid
\* Valid point: in the sub-domain and not seen before in this slice.
IsNewValid(in, cur, pt) ==
  /\ pt \in in.valid
  /\ \A k \in 1..Len(cur) : ~is_in_bb(cur[k], pt)
\* The scan for the end of the rect starting at bdpt: lengths of the BB.
RECURSIVE ScanRect(_, _, _, _)
ScanRect(in, cur, bdpt, scan_len) ==
  LET eofs == visitAllPoints(scan_len, in.first_inner)
      iedpt(k) == <<bdpt[1] + eofs[k][1], bdpt[2] + eofs[k][2]>>
      stops == {k \in 1..Len(eofs) :
                  /\ ~IsNewValid(in, cur, iedpt(k))
                  /\ \E i \in 1..nddims : iedpt(k)[i] > bdpt[i]}
  IN IF stops = {} THEN scan_len
     ELSE LET e == iedpt(SetMin(stops))
              i == SetMin({j \in 1..nddims : e[j] > bdpt[j]})
              adj == [scan_len EXCEPT ![i] = e[i] - bdpt[i]]
          IN IF i < nddims THEN ScanRect(in, cur, bdpt, adj) ELSE adj
\* The visit of the points of a slice from offset k on, looking for new
\* valid beginning points.
RECURSIVE SliceVisit(_, _, _, _, _, _)
SliceVisit(in, cur, slice_begin, slice_end, ofs, k) ==
  IF k > Len(ofs) THEN cur
  ELSE
    LET ibdpt == <<slice_begin[1] + ofs[k][1], slice_begin[2] + ofs[k][2]>>
        scan_len == ScanRect(in, cur, ibdpt,
                             <<slice_end[1] - ibdpt[1], slice_end[2] - ibdpt[2]>>)
        new_bb == [bb_begin |-> ibdpt,
                   bb_end |-> <<ibdpt[1] + scan_len[1], ibdpt[2] + scan_len[2]>>]
    IN SliceVisit(in, IF IsNewValid(in, cur, ibdpt) THEN Append(cur, new_bb)
                      ELSE cur,
                  slice_begin, slice_end, ofs, k + 1)
len_per_thr(in) == CEIL_DIV(ExtEnd[odim] - ExtBegin[odim], in.nthreads)
slice_begin_of(in, start) ==
  [ExtBegin EXCEPT ![odim] = @ + start * len_per_thr(in)]
slice_end_of(in, start) ==
  [ExtEnd EXCEPT ![odim] = Min2(@, slice_begin_of(in, start)[odim] + len_per_thr(in))]
SliceBBs(in, start) ==
  LET sb == slice_begin_of(in, start)
      se == slice_end_of(in, start)
  IN IF se[odim] <= sb[odim] THEN << >>
     ELSE SliceVisit(in, << >>, sb, se,
                     visitAllPoints(<<se[1] - sb[1], se[2] - sb[2]>>,
                                    in.first_inner), 1)

\* The merge of one BB of a slice into the final list and the overall BB.
CanMerge(bb, bbn) ==
  \A i \in 1..nddims :
    IF i = odim THEN bb.bb_end[i] = bbn.bb_begin[i]
    ELSE bb.bb_begin[i] = bbn.bb_begin[i] /\ bb.bb_end[i] = bbn.bb_end[i]
MergeOne(acc, bbn) ==
  IF bb_size(bbn) = 0 THEN acc
  ELSE
    LET to == {k \in 1..Len(acc.list) : CanMerge(acc.list[k], bbn)}
    IN [bb_begin |-> IF acc.bb_num_points = 0 THEN bbn.bb_begin
                     ELSE [i \in 1..nddims |->
                             Min2(acc.bb_begin[i], bbn.bb_begin[i])],
        bb_end |-> IF acc.bb_num_points = 0 THEN bbn.bb_end
                   ELSE [i \in 1..nddims |-> Max2(acc.bb_end[i], bbn.bb_end[i])],
        bb_num_points |-> acc.bb_num_points + bb_size(bbn),
        list |-> IF to = {} THEN Append(acc.list, bbn)
                 ELSE [acc.list EXCEPT ![SetMin(to)].bb_end[odim] =
                         bbn.bb_end[odim]]]
RECURSIVE MergeList(_, _, _)
MergeList(acc, cur_bb_list, k) ==
  IF k > Len(cur_bb_list) THEN acc
  ELSE MergeList(Bind(acc, LAMBDA a : MergeOne(a, cur_bb_list[k])),
                 cur_bb_list, k + 1)
RECURSIVE MergeThreads(_, _, _, _)
MergeThreads(acc, lists, n, nthreads) ==
  IF n >= nthreads THEN acc
  ELSE MergeThreads(MergeList(acc, lists[n], 1), lists, n + 1, nthreads)

Bundles ==
  {in \in [valid : SUBSET PointsOf(ExtBegin, ExtEnd), has_cond : BOOLEAN,
           nthreads : 1..MaxThreads, first_inner : BOOLEAN] :
     ~in.has_cond => in.valid = PointsOf(ExtBegin, ExtEnd)}
EngineOff ==
  /\ cfg = << >> /\ ctl = << >> /\ flags = << >> /\ vals = << >>
  /\ meta = << >> /\ evalLog = << >> /\ swap = << >> /\ lock = << >>
  /\ shmBuf = << >> /\ chan = << >> /\ recvBuf = << >> /\ sendReq = << >>
  /\ recvReq = << >> /\ sendLog = << >>
BBInit ==
  /\ EngineOff /\ LifeOff /\ ExtraOff
  /\ bbIn \in Bundles
  /\ bbPc = [at |-> "call", ran |-> {}]
  /\ bb_lists = [n \in 0..(bbIn.nthreads - 1) |-> << >>]
  /\ _bb_list = << >>
  /\ _bundle_bb = [bb_begin |-> <<0, 0>>, bb_end |-> <<0, 0>>,
                   bb_num_points |-> 0, bb_valid |-> FALSE]

\* find_bounding_box() up to the start of the threads; without a condition
\* the full BB is the only one.
FindBegin ==
  /\ bbPc.at = "call"
  /\ _bundle_bb' = [bb_begin |-> ExtBegin, bb_end |-> ExtEnd,
                    bb_num_points |-> ExtLen0 * ExtLen1, bb_valid |-> TRUE]
  /\ IF ~bbIn.has_cond
       THEN /\ _bb_list' = <<[bb_begin |-> ExtBegin, bb_end |-> ExtEnd]>>
            /\ bbPc' = [bbPc EXCEPT !.at = "done"]
       ELSE /\ _bb_list' = << >>
            /\ bbPc' = [bbPc EXCEPT !.at = "scan"]
  /\ UNCHANGED <<engineVars, lifeVars, extraVars, bbIn, bb_lists>>
\* The rect-finding code of thread `start` over its slice.
ScanSlice(start) ==
  /\ bbPc.at = "scan"
  /\ start \notin bbPc.ran
  /\ bb_lists' = [bb_lists EXCEPT ![start] = SliceBBs(bbIn, start)]
  /\ bbPc' = [bbPc EXCEPT !.ran = @ \cup {start}]
  /\ UNCHANGED <<engineVars, lifeVars, extraVars, bbIn, _bb_list, _bundle_bb>>
\* The collection of the BBs of all slices, once every thread is done.
MergeSlices ==
  /\ bbPc.at = "scan"
  /\ bbPc.ran = 0..(bbIn.nthreads - 1)
  /\ \E acc \in {MergeThreads([bb_begin |-> _bundle_bb.bb_begin,
                               bb_end |-> _bundle_bb.bb_end,
                               bb_num_points |-> 0, list |-> _bb_list],
                              bb_lists, 0, bbIn.nthreads)} :
       /\ _bb_list' = acc.list
       /\ _bundle_bb' = [bb_begin |-> acc.bb_begin, bb_end |-> acc.bb_end,
                         bb_num_points |-> acc.bb_num_points,
                         bb_valid |-> TRUE]
  /\ bbPc' = [bbPc EXCEPT !.at = "done"]
  /\ UNCHANGED <<engineVars, lifeVars, extraVars, bbIn, bb_lists>>
BBNext ==
  \/ FindBegin
  \/ \E start \in 0..(bbIn.nthreads - 1) : ScanSlice(start)
  \/ MergeSlices
SpecBB == BBInit /\ [][BBNext]_<<engineVars, otherVars>>

(***************************************************************************)
(* The solution life-cycle: prepare_solution(), run_solution() and         *)
(* run_auto_tuner_now(), called on every rank of a job whose solution has  *)
(* two domain dims.  A call is made by all ranks together; when a rank     *)
(* throws, the call ends with the exception and the ranks keep what they   *)
(* had written up to the next exchange between the ranks.                  *)
(***************************************************************************)
\* dims->_cluster_pts.
cluster_pts == <<2, 1>>
\* Region sizes in the domain dims.
RegionSizes == {1, 6}
MPI_PROC_NULL == 0 - 1
\* Tuple::product(): 1 for a tuple without dims.
Product(t) == IF t = << >> THEN 1 ELSE t[1] * t[2]
TupleMax(t) == Max2(t[1], t[2])
\* MPIInfo: neighbour offsets rank_prev, rank_self, rank_next in each dim.
rank_prev == 0
rank_self == 1
rank_next == 2
NeighborOffsets == (rank_prev..rank_next) \X (rank_prev..rank_next)
NoBuf == [begin_pt |-> << >>, last_pt |-> << >>, num_pts |-> << >>]
NoBB == [bb_begin |-> <<0, 0>>, bb_end |-> <<0, 0>>, bb_valid |-> FALSE]
\* The context of a rank as the constructors of StencilContext and MPIInfo
\* leave it.
NewContext ==
  [rank_domain_offsets |-> <<0 - 1, 0 - 1>>,
   my_neighbors |-> [n \in NeighborOffsets |-> MPI_PROC_NULL],
   man_dists |-> [n \in NeighborOffsets |-> 0],
   has_all_vlen_mults |-> [n \in NeighborOffsets |-> FALSE],
   wf_steps |-> 0, num_wf_shifts |-> 0,
   wf_angles |-> <<0, 0>>, wf_shift_pts |-> <<0, 0>>,
   left_wf_exts |-> <<0, 0>>, right_wf_exts |-> <<0, 0>>,
   domain_size |-> <<0, 0>>, rank_offset |-> <<0, 0>>,
   left_wf_ext |-> <<0, 0>>, right_wf_ext |-> <<0, 0>>,
   rank_bb |-> NoBB, ext_bb |-> NoBB, mpi_interior |-> NoBB,
   mpiData |-> [n \in NeighborOffsets |-> [bufSend |-> NoBuf, bufRecv |-> NoBuf]]]

\* setupRank(): the factors of the number of ranks, in ascending order.
facts(nr) ==
  LET D == {n \in 1..nr : nr % n = 0}
  IN [k \in 1..Cardinality(D) |->
        CHOOSE n \in D : Cardinality({m \in D : m < n}) = k - 1]
\* The number of options to try in each dim.
combos(nr, given) ==
  [j \in 1..nddims |-> IF j = 1 \/ given[j] # 0 THEN 1 ELSE Len(facts(nr))]
\* The layout made of the factors at the indices of a combo.
LayoutOf(nr, given, combo) ==
  LET n0 == [j \in 1..nddims |->
               IF given[j] # 0 THEN given[j]
               ELSE IF j = 1 THEN 0 - 1 ELSE facts(nr)[combo[j] + 1]]
  IN IF n0[1] = 0 - 1
       THEN [n0 EXCEPT ![1] = nr \div Product([n0 EXCEPT ![1] = 1])]
       ELSE n0
BestSoFar_any(num_ranks, best) == TRUE
\* A layout is better if its max size is smaller.
BestSoFar(num_ranks, best) ==
  best = << >> \/ TupleMax(num_ranks) < TupleMax(best)
\* The most compact valid layout among the combos from the k-th on.
RECURSIVE BestLayout(_, _, _, _, _)
BestLayout(nr, given, pts, k, best) ==
  IF k > Len(pts) THEN best
  ELSE LET num_ranks == LayoutOf(nr, given, pts[k])
       IN BestLayout(nr, given, pts, k + 1,
                     IF Product(num_ranks) = nr /\ BestSoFar(num_ranks, best)
                       THEN num_ranks ELSE best)
\* Tuple::unlayout(): the n-D indices of a 1-D index.
unlayout(sizes, idx, first_inner) == visitAllPoints(sizes, first_inner)[idx + 1]

\* Offsets of rank rn from rank me in the tables of rank indices.
rdeltas(O, me, rn) ==
  [j \in 1..nddims |-> O[rn]._rank_indices[j] - O[me]._rank_indices[j]]
mandist(O, me, rn) == Abs(rdeltas(O, me, rn)[1]) + Abs(rdeltas(O, me, rn)[2])
maxdist(O, me, rn) == Max2(Abs(rdeltas(O, me, rn)[1]), Abs(rdeltas(O, me, rn)[2]))
is_inline(O, me, rn, di) ==
  \A dj \in 1..nddims : dj # di => rdeltas(O, me, rn)[dj] = 0
unaligned_never(O, me, rn, di) == FALSE
\* Rank rn, in line with rank me along dim di, differs from it in the size
\* of another dim.
unaligned(O, me, rn, di) ==
  \E dj \in 1..nddims :
    dj # di /\ O[me]._rank_sizes[dj] # O[rn]._rank_sizes[dj]
\* The loop over the domain dims for rank rn in a pass of rank me.
RECURSIVE InlineDims(_, _, _, _, _, _)
InlineDims(O, pass, me, rn, di, acc) ==
  IF di > nddims \/ acc.err # "" THEN acc
  ELSE IF ~is_inline(O, me, rn, di) THEN InlineDims(O, pass, me, rn, di + 1, acc)
  ELSE
    LET a1 == [acc EXCEPT !.rank_domain_sums[di] = @ + O[rn]._rank_sizes[di]]
        a2 == IF pass = 0 THEN a1
              ELSE IF unaligned(O, me, rn, di) THEN [a1 EXCEPT !.err = "unaligned"]
              ELSE IF rdeltas(O, me, rn)[di] < 0
                THEN [a1 EXCEPT !.rank_domain_offsets[di] =
                                  @ + O[rn]._rank_sizes[di]]
                ELSE a1
    IN InlineDims(O, pass, me, rn, di + 1, a2)
\* The loop over all ranks in a pass of rank me.
RECURSIVE RankTable(_, _, _, _, _, _)
RankTable(nr, O, pass, me, rn, acc) ==
  IF rn >= nr \/ acc.err # "" THEN acc
  ELSE IF rn # me /\ mandist(O, me, rn) = 0
    THEN [acc EXCEPT !.err = "same coordinates"]
  ELSE
    LET a1 == InlineDims(O, pass, me, rn, 1, acc)
        rn_ofs == <<rdeltas(O, me, rn)[1] + 1, rdeltas(O, me, rn)[2] + 1>>
        a2 == IF a1.err = "" /\ pass = 1 /\ maxdist(O, me, rn) <= 1
                THEN [a1 EXCEPT
                        !.my_neighbors[rn_ofs] = rn,
                        !.man_dists[rn_ofs] = mandist(O, me, rn),
                        !.has_all_vlen_mults[rn_ofs] =
                          \A j \in 1..nddims : O[rn]._rank_sizes[j] % FoldPts = 0]
                ELSE a1
    IN RankTable(nr, O, pass, me, rn + 1, a2)
PassOf(nr, O, C, pass, me) ==
  RankTable(nr, O, pass, me, 0,
            [rank_domain_sums |-> <<0, 0>>,
             rank_domain_offsets |-> C[me].rank_domain_offsets,
             my_neighbors |-> C[me].my_neighbors,
             man_dists |-> C[me].man_dists,
             has_all_vlen_mults |-> C[me].has_all_vlen_mults,
             err |-> ""])
\* End of the 1st pass: the local or the global size of each dim.
RECURSIVE SetSizes(_, _, _)
SetSizes(o, sums, j) ==
  IF j > nddims THEN [o |-> o, err |-> ""]
  ELSE
    LET nranks == o._num_ranks[j]
        gsz == o._global_sizes[j]
        is_last == o._rank_indices[j] = nranks - 1
        rsz == ROUND_UP(CEIL_DIV(gsz, nranks), cluster_pts[j])
        rem == gsz - rsz * (nranks - 1)
    IN IF o._rank_sizes[j] = 0
         THEN IF sums[j] # 0 THEN [o |-> o, err |-> "size given on another rank"]
              ELSE IF rem <= 0 THEN [o |-> o, err |-> "global size too small"]
              ELSE SetSizes([o EXCEPT !._rank_sizes[j] =
                                        IF is_last THEN rem ELSE rsz], sums, j + 1)
       ELSE IF gsz = 0
         THEN SetSizes([o EXCEPT !._global_sizes[j] = sums[j]], sums, j + 1)
       ELSE SetSizes(o, sums, j + 1)
WithPass(C, A) ==
  [me \in DOMAIN C |->
     [C[me] EXCEPT !.rank_domain_offsets = A[me].rank_domain_offsets,
                   !.my_neighbors = A[me].my_neighbors,
                   !.man_dists = A[me].man_dists,
                   !.has_all_vlen_mults = A[me].has_all_vlen_mults]]
ResetOffsets_keep(C) == C
\* rank_domain_offsets.setValsSame(0) on every rank.
ResetOffsets(C) ==
  [me \in DOMAIN C |-> [C[me] EXCEPT !.rank_domain_offsets = <<0, 0>>]]
\* How setupRank() ends on all ranks: the options and contexts it leaves
\* and the error it throws, if any.
SetupEnd(OO, CC, msg) == [opts |-> OO, ctx |-> CC, err |-> msg]
SetupPass1_nocheck(e, O3, C1) ==
  Bind([me \in DOMAIN O3 |-> PassOf(e.nr, O3, C1, 1, me)],
       LAMBDA A1 :
         IF \E me \in DOMAIN O3 : A1[me].err # ""
           THEN SetupEnd(O3, WithPass(C1, A1), "2nd pass")
         ELSE SetupEnd(O3, WithPass(C1, A1), ""))
\* The 2nd pass and the check of the sums.
SetupPass1(e, O3, C1) ==
  Bind([me \in DOMAIN O3 |-> PassOf(e.nr, O3, C1, 1, me)],
       LAMBDA A1 :
         IF \E me \in DOMAIN O3 : A1[me].err # ""
           THEN SetupEnd(O3, WithPass(C1, A1), "2nd pass")
         ELSE IF \E me \in DOMAIN O3, j \in 1..nddims :
                   O3[me]._global_sizes[j] # A1[me].rank_domain_sums[j]
           THEN SetupEnd(O3, WithPass(C1, A1), "sum of local sizes")
         ELSE SetupEnd(O3, WithPass(C1, A1), ""))
\* The 1st pass and the sizes it sets.
SetupPass0(e, O2, C1) ==
  Bind([me \in DOMAIN O2 |->
          Bind(PassOf(e.nr, O2, C1, 0, me),
               LAMBDA a : IF a.err # "" THEN [o |-> O2[me], err |-> a.err]
                          ELSE SetSizes(O2[me], a.rank_domain_sums, 1))],
       LAMBDA S0 :
         Bind([me \in DOMAIN O2 |-> S0[me].o],
              LAMBDA O3 :
                IF \E me \in DOMAIN O2 : S0[me].err # ""
                  THEN SetupEnd(O3, C1, "1st pass")
                  ELSE SetupPass1(e, O3, C1)))
\* The rank indices and their check.
SetupIndices(e, O1, C) ==
  Bind([me \in DOMAIN O1 |->
          IF e.find_loc
            THEN [O1[me] EXCEPT !._rank_indices =
                    unlayout(O1[me]._num_ranks, me, e.first_inner)]
            ELSE O1[me]],
       LAMBDA O2 :
         IF \E me \in DOMAIN O2, j \in 1..nddims :
              \/ O2[me]._rank_indices[j] < 0
              \/ O2[me]._rank_indices[j] >= O2[me]._num_ranks[j]
           THEN SetupEnd(O2, C, "rank index")
           ELSE Bind(ResetOffsets(C), LAMBDA C1 : SetupPass0(e, O2, C1)))
\* setupRank() on all ranks of the job.
setupRank(e, O, C) ==
  IF \E me \in DOMAIN O, j \in 1..nddims :
       O[me]._global_sizes[j] = 0 /\ O[me]._rank_sizes[j] = 0
    THEN SetupEnd(O, C, "both sizes are zero")
    ELSE
      Bind([me \in DOMAIN O |->
              IF Product(O[me]._num_ranks) = 0
                THEN [O[me] EXCEPT !._num_ranks =
                        BestLayout(e.nr, @,
                                   visitAllPoints(combos(e.nr, @), e.first_inner),
                                   1, << >>)]
                ELSE O[me]],
           LAMBDA O1 :
             IF \E me \in DOMAIN O1 : Product(O1[me]._num_ranks) # e.nr
               THEN SetupEnd(O1, C, "ranks requested")
               ELSE SetupIndices(e, O1, C))

\* update_grid_info(): angles, shifts and extensions from dim j on.
RECURSIVE WaveFronts(_, _, _, _)
WaveFronts(e, o, c, j) ==
  IF j > nddims THEN [ctx |-> c, err |-> ""]
  ELSE
    LET angle == ROUND_UP(max_halos, FoldPts)
        wf_ang == IF e.rs < o._rank_sizes[j] \/ o._num_ranks[j] > 1
                    THEN angle ELSE 0
        shifts == wf_ang * c.num_wf_shifts
        c1 == [c EXCEPT !.wf_angles[j] = wf_ang, !.wf_shift_pts[j] = shifts]
    IN IF o._num_ranks[j] > 1 /\ o._rank_sizes[j] < max_halos + shifts
         THEN [ctx |-> c1, err |-> "local-domain size too small"]
         ELSE WaveFronts(e, o,
                [c1 EXCEPT
                   !.left_wf_exts[j] =
                     IF o._rank_indices[j] = 0 THEN 0 ELSE shifts,
                   !.right_wf_exts[j] =
                     IF o._rank_indices[j] = o._num_ranks[j] - 1 THEN 0 ELSE shifts],
                j + 1)
update_grid_info(e, o, c) ==
  LET steps == Max2(e.wf, 0)
      c0 == [c EXCEPT
               !.domain_size = o._rank_sizes,
               !.rank_offset = c.rank_domain_offsets,
               !.wf_steps = steps,
               !.num_wf_shifts =
                 IF steps > 0
                   THEN (IF NumPacks * steps > 0 THEN NumPacks * steps - 1 ELSE 0)
                   ELSE 0]
      w == WaveFronts(e, o, c0, 1)
  IN IF w.err # "" THEN w
     ELSE [ctx |-> [w.ctx EXCEPT !.left_wf_ext = w.ctx.left_wf_exts,
                                 !.right_wf_ext = w.ctx.right_wf_exts],
           err |-> ""]
\* find_bounding_boxes(): the rank BB and the extended BB.
find_bounding_boxes(o, c) ==
  LET rb == c.rank_domain_offsets
      re == [j \in 1..nddims |-> c.rank_domain_offsets[j] + o._rank_sizes[j]]
  IN [c EXCEPT
        !.rank_bb = [bb_begin |-> rb, bb_end |-> re, bb_valid |-> TRUE],
        !.ext_bb = [bb_begin |-> [j \in 1..nddims |-> rb[j] - c.left_wf_exts[j]],
                    bb_end |-> [j \in 1..nddims |-> re[j] + c.right_wf_exts[j]],
                    bb_valid |-> TRUE]]

\* allocMpiData(): is a buffer made for the neighbour at offsets n?
halo_exchange_l1_norm == 1
overlap_comms == TRUE
NeedsBuf(c, n) ==
  /\ n # <<rank_self, rank_self>>
  /\ c.my_neighbors[n] # MPI_PROC_NULL
  /\ c.man_dists[n] <= (IF c.wf_steps > 0 THEN nddims ELSE halo_exchange_l1_norm)
CopyRange_sendmine(o, c, n, bd, j) ==
  LET fidx == c.rank_offset[j]
      lidx == c.rank_offset[j] + c.domain_size[j] - 1
      first_outer == IF o._rank_indices[j] = 0 THEN fidx - HaloSize.left ELSE fidx
      last_outer == IF o._rank_indices[j] = o._num_ranks[j] - 1
                      THEN lidx + HaloSize.right ELSE lidx
      ext == c.wf_shift_pts[j]
      my_halo == IF n[j] = rank_prev THEN HaloSize.left + ext
                 ELSE HaloSize.right + ext
      neigh_halo == IF n[j] = rank_prev THEN HaloSize.right
                    ELSE HaloSize.left + ext
  IN IF n[j] = rank_self THEN [b |-> first_outer, e |-> last_outer + 1]
     ELSE IF bd = "bufSend"
       THEN (IF n[j] = rank_prev THEN [b |-> fidx, e |-> fidx + neigh_halo]
             ELSE [b |-> lidx + 1 - neigh_halo, e |-> lidx + 1])
     ELSE (IF n[j] = rank_prev THEN [b |-> fidx - my_halo, e |-> fidx]
           ELSE [b |-> lidx + 1, e |-> lidx + 1 + my_halo])
\* [copy_begin, copy_end) in dim j of the buffer in direction bd.
CopyRange(o, c, n, bd, j) ==
  LET fidx == c.rank_offset[j]
      lidx == c.rank_offset[j] + c.domain_size[j] - 1
      first_outer == IF o._rank_indices[j] = 0 THEN fidx - HaloSize.left ELSE fidx
      last_outer == IF o._rank_indices[j] = o._num_ranks[j] - 1
                      THEN lidx + HaloSize.right ELSE lidx
      ext == c.wf_shift_pts[j]
      my_halo == IF n[j] = rank_prev THEN HaloSize.left + ext
                 ELSE HaloSize.right + ext
      neigh_halo == IF n[j] = rank_prev THEN HaloSize.right + ext
                    ELSE HaloSize.left + ext
  IN IF n[j] = rank_self THEN [b |-> first_outer, e |-> last_outer + 1]
     ELSE IF bd = "bufSend"
       THEN (IF n[j] = rank_prev THEN [b |-> fidx, e |-> fidx + neigh_halo]
             ELSE [b |-> lidx + 1 - neigh_halo, e |-> lidx + 1])
     ELSE (IF n[j] = rank_prev THEN [b |-> fidx - my_halo, e |-> fidx]
           ELSE [b |-> lidx + 1, e |-> lidx + 1 + my_halo])
MakeBuf(o, c, n, bd) ==
  LET rg == [j \in 1..nddims |-> CopyRange(o, c, n, bd, j)]
      buf_sizes == [j \in 1..nddims |-> rg[j].e - rg[j].b]
  IN IF Product(buf_sizes) = 0 THEN NoBuf
     ELSE [begin_pt |-> [j \in 1..nddims |-> rg[j].b],
           last_pt |-> [j \in 1..nddims |-> rg[j].e - 1],
           num_pts |-> buf_sizes]
\* The interior left by the buffers sent to the neighbours.
InteriorOf(e, c) ==
  LET to(j, d) == \E n \in NeighborOffsets : NeedsBuf(c, n) /\ n[j] = d
      fidx(j) == c.rank_offset[j]
      lidx(j) == c.rank_offset[j] + c.domain_size[j] - 1
      ext(j) == c.wf_shift_pts[j]
  IN [bb_begin |->
        [j \in 1..nddims |->
           IF to(j, rank_prev)
             THEN Max2(c.ext_bb.bb_begin[j],
                       ROUND_UP(fidx(j) + Max2(MinExterior, HaloSize.right + ext(j)),
                                FoldPts))
             ELSE c.ext_bb.bb_begin[j]],
      bb_end |->
        [j \in 1..nddims |->
           IF to(j, rank_next)
             THEN Min2(c.ext_bb.bb_end[j],
                       ROUND_DOWN(lidx(j) + 1 -
                                  Max2(MinExterior, HaloSize.left + ext(j)), FoldPts))
             ELSE c.ext_bb.bb_end[j]],
      bb_valid |-> (e.nr > 1 /\ overlap_comms)]
allocMpiData(e, o, c) ==
  [c EXCEPT
     !.mpi_interior = InteriorOf(e, c),
     !.mpiData = [n \in NeighborOffsets |->
                    IF NeedsBuf(c, n)
                      THEN [bufSend |-> MakeBuf(o, c, n, "bufSend"),
                            bufRecv |-> MakeBuf(o, c, n, "bufRecv")]
                      ELSE [bufSend |-> NoBuf, bufRecv |-> NoBuf]]]
\* The local part of prepare_solution() after setupRank().
PrepareRest(e, s) ==
  Bind([me \in DOMAIN s.opts |-> update_grid_info(e, s.opts[me], s.ctx[me])],
       LAMBDA g :
         IF \E me \in DOMAIN g : g[me].err # ""
           THEN [opts |-> s.opts,
                 ctx |-> [me \in DOMAIN g |->
                            IF g[me].err # "" THEN g[me].ctx
                            ELSE find_bounding_boxes(s.opts[me], g[me].ctx)],
                 err |-> "update_grid_info"]
           ELSE [opts |-> s.opts,
                 ctx |-> [me \in DOMAIN g |->
                            Bind(find_bounding_boxes(s.opts[me], g[me].ctx),
                                 LAMBDA c : allocMpiData(e, s.opts[me], c))],
                 err |-> ""])
\* prepare_solution() on all ranks of the job.
prepare_solution(e, O, C) ==
  Bind(setupRank(e, O, C),
       LAMBDA s : IF s.err # "" THEN s ELSE PrepareRest(e, s))
is_prepared(c) == c.rank_bb.bb_valid

\* The settings of a job: number of ranks, whether the rank indices are to
\* be found, the order of layouts, wave-front steps and region size.
LifeJobs ==
  {e \in [nr : 1..MaxEnvRanks, find_loc : BOOLEAN, first_inner : BOOLEAN,
          wf : {0, 2}, rs : RegionSizes] : e.wf = 0 => e.rs = 6}
\* The numbers of ranks per dim the user gives (0: to be calculated).
NumRanksChoices(nr) == ((0..2) \X (0..2)) \cup {<<nr, 1>>, <<1, nr>>}
\* The local sizes the ranks give in a dim with the global size given:
\* none, the same on all ranks, or alternating.
SizePlans ==
  {<<"unset", 4>>, <<"unset", 6>>, <<"same", 0>>, <<"same", 4>>, <<"alt", 0>>}
PlanSize(plan, r) ==
  IF plan[1] = "unset" THEN 0 ELSE IF plan[1] = "same" THEN 2 ELSE 2 + (r % 2)
LifeInit ==
  /\ EngineOff /\ BBOff /\ ExtraOff
  /\ lenv \in LifeJobs
  /\ \E given \in NumRanksChoices(lenv.nr), px \in SizePlans, py \in SizePlans,
        in_x \in (IF lenv.find_loc THEN {FALSE} ELSE BOOLEAN) :
       opts = [me \in 0..(lenv.nr - 1) |->
                 [_num_ranks |-> given,
                  _rank_indices |-> IF in_x THEN <<me, 0>> ELSE <<0, 0>>,
                  _rank_sizes |-> <<PlanSize(px, me), PlanSize(py, me)>>,
                  _global_sizes |-> <<px[2], py[2]>>]]
  /\ kctx = [me \in 0..(lenv.nr - 1) |-> NewContext]
  /\ lastCall = [op |-> "new_solution", threw |-> {}, evaluated |-> 0,
                 called_before |-> FALSE, again |-> FALSE, before |-> << >>, hooks |-> << >>,
                 run_time_running |-> {}]
  /\ prepare_called = FALSE

\* The search of setupRank() for a layout ends with `best` empty on a rank.
NoBestLayout(e, O) ==
  \E me \in DOMAIN O :
    /\ O[me]._num_ranks # << >>
    /\ Product(O[me]._num_ranks) = 0
    /\ BestLayout(e.nr, O[me]._num_ranks,
                  visitAllPoints(combos(e.nr, O[me]._num_ranks), e.first_inner),
                  1, << >>) = << >>
\* prepare_solution() with no layout found: assert(best.size()) ends the
\* program in a build with assertions.
PrepareAborts ==
  /\ lastCall.op # "abort"
  /\ NoBestLayout(lenv, opts)
  /\ lastCall' = [op |-> "abort", threw |-> {}, evaluated |-> 0,
                  called_before |-> prepare_called, again |-> FALSE,
                  before |-> [opts |-> opts, ctx |-> kctx], hooks |-> << >>,
                  run_time_running |-> lastCall.run_time_running]
  /\ prepare_called' = TRUE
  /\ UNCHANGED <<engineVars, bbVars, extraVars, lenv, opts, kctx>>
\* yk_solution::prepare_solution() on all ranks.  Without assertions an
\* empty `best` becomes the layout; the indexing of it that follows when its
\* product equals the number of ranks is out of range and is left to
\* PrepareAborts.
PrepareSolution ==
  /\ lastCall.op # "abort"
  /\ ~(NoBestLayout(lenv, opts) /\ Product(<< >>) = lenv.nr)
  /\ \E s \in {prepare_solution(lenv, opts, kctx)} :
       /\ opts' = s.opts
       /\ kctx' = s.ctx
       /\ lastCall' = [op |-> "prepare_solution",
                       threw |-> IF s.err # "" THEN DOMAIN opts ELSE {},
                       evaluated |-> 0,
                       called_before |-> prepare_called,
                       again |-> (lastCall.op = "prepare_solution"
                                  /\ lastCall.threw = {}),
                       before |-> [opts |-> opts, ctx |-> kctx],
                       hooks |-> << >>,
                  run_time_running |-> lastCall.run_time_running]
  /\ prepare_called' = TRUE
  /\ UNCHANGED <<engineVars, bbVars, extraVars, lenv>>
\* Steps evaluated by run_solution(first, last) on the ranks that do not throw.
StepsRun(first_step_index, last_step_index) ==
  IF \E me \in DOMAIN kctx :
       is_prepared(kctx[me]) /\ bb_size(kctx[me].ext_bb) >= 1
    THEN Abs(last_step_index - first_step_index) + 1
    ELSE 0
\* The hooks that one run_solution() call runs on a rank, in order: the
\* before-hooks on entry, the after-hooks at the end of the function, which
\* a throw or the return of a rank with nothing to do do not reach.
HooksOfRun_early(c) ==
  IF ~is_prepared(c) THEN <<"before">>
  ELSE IF bb_size(c.ext_bb) < 5 THEN <<"before">>
  ELSE <<"before", "after">>
HooksOfRun(c) ==
  IF ~is_prepared(c) THEN <<"before">>
  ELSE IF bb_size(c.ext_bb) < 1 THEN <<"before">>
  ELSE <<"before", "after">>
\* run_time after one run_solution() call on a rank: started on entry and
\* stopped at the end of the function, which a throw or the return of a rank
\* with nothing to do do not reach.
TimerLeftRunning(c) ==
  IF ~is_prepared(c) THEN TRUE
  ELSE IF bb_size(c.ext_bb) < 1 THEN TRUE
  ELSE FALSE
RunSolutionCall_unguarded ==
  /\ \E first_step_index \in 0..1, last_step_index \in 0..1 :
       lastCall' = [op |-> "run_solution",
                    threw |-> {},
                    evaluated |-> Abs(last_step_index - first_step_index) + 1,
                    called_before |-> prepare_called,
                    again |-> FALSE, before |-> << >>, hooks |-> << >>,
                  run_time_running |-> lastCall.run_time_running]
  /\ UNCHANGED <<engineVars, bbVars, extraVars, lenv, opts, kctx, prepare_called>>
\* StencilContext::run_solution() on all ranks, up to the step loop.
RunSolutionCall ==
  /\ lastCall.op # "abort"
  /\ \E first_step_index \in 0..1, last_step_index \in 0..1 :
       lastCall' = [op |-> "run_solution",
                    threw |-> {me \in DOMAIN kctx : ~is_prepared(kctx[me])},
                    evaluated |-> StepsRun(first_step_index, last_step_index),
                    called_before |-> prepare_called,
                    again |-> FALSE, before |-> << >>,
                    hooks |-> [me \in DOMAIN kctx |-> HooksOfRun(kctx[me])],
                    run_time_running |->
                      {me \in DOMAIN kctx : TimerLeftRunning(kctx[me])}]
  /\ UNCHANGED <<engineVars, bbVars, extraVars, lenv, opts, kctx, prepare_called>>
\* yk_solution::run_auto_tuner_now() on all ranks: some steps are run
\* unless the solution is not prepared.
RunAutoTunerNow ==
  /\ lastCall.op # "abort"
  /\ \E n \in 1..2 :
       lastCall' = [op |-> "run_auto_tuner_now",
                    threw |-> {me \in DOMAIN kctx : ~is_prepared(kctx[me])},
                    evaluated |-> StepsRun(1, n),
                    called_before |-> prepare_called,
                    again |-> FALSE, before |-> << >>, hooks |-> << >>,
                  run_time_running |-> lastCall.run_time_running]
  /\ UNCHANGED <<engineVars, bbVars, extraVars, lenv, opts, kctx, prepare_called>>
LifeNext ==
  \/ PrepareSolution
  \/ PrepareAborts
  \/ RunSolutionCall
  \/ RunAutoTunerNow
SpecLife == LifeInit /\ [][LifeNext]_<<engineVars, otherVars>>

(***************************************************************************)
(* Properties.                                                             *)
(***************************************************************************)

C2_HalosMatchNeighbor ==
  \A r \in Ranks(cfg) :
    (ctl[r].pc \in {"loop", "done"} /\ swap[r].any) =>
      \A sd \in Sides :
        NeighborRank(cfg, r, sd) # -1 =>
          \A t \in swap[r].first..swap[r].last :
            (t \in ValidSteps(meta[r]) /\
             t \in ValidSteps(meta[NeighborRank(cfg, r, sd)])) =>
              \A x \in RecvRange(cfg, r, sd).b..(RecvRange(cfg, r, sd).e - 1) :
                vals[r][_wrap_step(t)][x] =
                  vals[NeighborRank(cfg, r, sd)][_wrap_step(t)][x]
\* Rank 0 has returned from the exchange after its second stride, having
\* swapped a computed step that rank 1 still holds.
C2_Witness ==
  /\ cfg.nr = 2 /\ cfg.wf = 2 /\ cfg.first = 0 /\ cfg.last = 2
  /\ ctl[0].pc = "done" /\ swap[0].any
  /\ swap[0].last \in ValidSteps(meta[1])
  /\ \E x \in RecvRange(cfg, 0, "right").b..(RecvRange(cfg, 0, "right").e - 1) :
       vals[0][_wrap_step(swap[0].last)][x] # 0

\* C3: for every shm send buffer, the sender is between
\* wait_for_ok_to_write() and mark_write_done() only while the lock is ok
\* to write, the receiver is between wait_for_ok_to_read() and
\* mark_read_done() only while it is ok to read, and the two are never
\* there at the same time.
PackCS(r, sd) ==
  /\ InExchange(r) /\ ctl[r].cs
  /\ CurVisit(r).step = "halo_pack_isend" /\ CurVisit(r).sd = sd
UnpackCS(r, sd) ==
  /\ InExchange(r) /\ ctl[r].cs
  /\ CurVisit(r).step = "halo_unpack" /\ CurVisit(r).sd = sd
C3_ShmBufferExclusive ==
  \A r \in Ranks(cfg) : \A sd \in Sides :
    NeighborRank(cfg, r, sd) # -1 =>
      /\ ~(PackCS(r, sd) /\ UnpackCS(NeighborRank(cfg, r, sd), OtherSide(sd)))
      /\ PackCS(r, sd) => lock[r][sd] = "ok_to_write"
      /\ UnpackCS(NeighborRank(cfg, r, sd), OtherSide(sd)) =>
           lock[r][sd] = "ok_to_read"
\* A receiver is unpacking a shm buffer while its sender is already waiting
\* to pack the same buffer for the next exchange.
C3_Witness ==
  \E r \in Ranks(cfg) : \E sd \in Sides :
    /\ NeighborRank(cfg, r, sd) # -1
    /\ UnpackCS(NeighborRank(cfg, r, sd), OtherSide(sd))
    /\ InExchange(r) /\ ~ctl[r].cs
    /\ CurVisit(r).step = "halo_pack_isend" /\ CurVisit(r).sd = sd

\* C4: under fair scheduling of the ranks and of the MPI library, a
\* run_solution() call made on all ranks returns on every rank.
C4_RunCompletes == <>AllDone
\* Three ranks have completed a run with shm buffers and overlap.
C4_Witness ==
  /\ AllDone /\ cfg.nr = 3 /\ cfg.shm /\ cfg.ovl
  /\ \A r \in Ranks(cfg) : ctl[r].idx = num_t(cfg)

\* C5 as stated: the dirty bit of a step of the var goes from true to false
\* only in a step that a rank takes inside exchange_halos().
StepUniverse == (0 - 1)..(MaxSteps + 2)
DirtyBit(r, t) == t \in ValidSteps(meta[r]) /\ is_dirty(meta[r], t)
C5_ClearedOnlyInExchange ==
  [][\A r \in Ranks(cfg) : \A t \in StepUniverse :
       (DirtyBit(r, t) /\ ~DirtyBit(r, t)') =>
         (InExchange(r) /\ CurVisit(r).step = "halo_final")]_engineVars
\* C5: the dirty bit of a step of the var goes from true to false only in
\* the halo_final phase of exchange_halos(), or when update_valid_step()
\* moves the step out of the var's step window.
C5_ClearedInExchangeOrDropped ==
  [][\A r \in Ranks(cfg) : \A t \in StepUniverse :
       (DirtyBit(r, t) /\ ~DirtyBit(r, t)') =>
         \/ InExchange(r) /\ CurVisit(r).step = "halo_final"
         \/ t \notin ValidSteps(meta[r])']_engineVars
\* A rank with neighbours has left exchange_halos() with every step of the
\* window clean after its interior pass left the flags of the exterior
\* pass alone.
C5_Witness ==
  /\ cfg.nr = 2 /\ cfg.ovl /\ cfg.wf = 2
  /\ ctl[0].pc = "done" /\ swap[0].any
  /\ \A t \in ValidSteps(meta[0]) : ~is_dirty(meta[0], t)

\* C10: on every rank the steps evaluated at a point of the rank's domain
\* are, in order, first, first + step_dir, ... and, when run_solution()
\* has returned, end with last: every step once, ascending or descending,
\* also when the strides of wf_steps steps end with a shorter one.
StepsOfRun(c) ==
  [k \in 1..(Abs(c.last - c.first) + 1) |-> c.first + (k - 1) * step_dir(c)]
EvaluatedAt(r, x) ==
  LET sel == SelectSeq(evalLog[r], LAMBDA en : en.b <= x /\ x < en.e)
  IN [k \in 1..Len(sel) |-> sel[k].t]
C10_EveryStepOnceInOrder ==
  \A r \in Ranks(cfg) : \A x \in DomainX(cfg, r) :
    /\ Len(EvaluatedAt(r, x)) <= Len(StepsOfRun(cfg))
    /\ EvaluatedAt(r, x) = SubSeq(StepsOfRun(cfg), 1, Len(EvaluatedAt(r, x)))
    /\ ctl[r].pc = "done" => EvaluatedAt(r, x) = StepsOfRun(cfg)
\* Three steps in descending order in strides of two, the last stride
\* holding one step, have been evaluated on two ranks.
C10_Witness ==
  /\ AllDone /\ cfg.nr = 2 /\ cfg.wf = 2
  /\ cfg.first = MaxSteps - 1 /\ cfg.last = 0 /\ MaxSteps % 2 = 1
  /\ \A r \in Ranks(cfg) : \A x \in DomainX(cfg, r) :
       EvaluatedAt(r, x) = StepsOfRun(cfg)

\* C6: after find_bounding_box() the union of the BBs of the bundle is the
\* set of points of the extended rank BB that are in the sub-domain.  The
\* scan delivers this when visitAllPoints() has the first dim as the inner
\* one (C6_FirstInner); with the last dim as the inner one a BB can hold
\* points outside the sub-domain.
BBPoints(list) ==
  UNION {PointsOf(list[k].bb_begin, list[k].bb_end) : k \in 1..Len(list)}
C6_BBsCoverValidPoints ==
  bbPc.at = "done" => BBPoints(_bb_list) = bbIn.valid
C6_FirstInner ==
  bbIn.first_inner => C6_BBsCoverValidPoints

\* C7: the BBs found by a thread in its slice are pairwise disjoint, and so
\* are the BBs of the final list after the merge.
Disjoint(list) ==
  \A j, k \in 1..Len(list) :
    j # k => PointsOf(list[j].bb_begin, list[j].bb_end) \cap
             PointsOf(list[k].bb_begin, list[k].bb_end) = {}
C7_BBsDisjoint ==
  /\ bbPc.at = "scan" => \A n \in bbPc.ran : Disjoint(bb_lists[n])
  /\ bbPc.at = "done" => Disjoint(_bb_list)
C7_Witness ==
  /\ bbPc.at = "done" /\ bbIn.has_cond /\ Len(_bb_list) >= 3
  /\ \E n \in DOMAIN bb_lists : Len(bb_lists[n]) >= 2

\* C8: prepare_solution() called twice in succession, the first call having
\* returned, returns again and leaves the same rank topology, bounding
\* boxes and storage sizes.
Topology(O, C) ==
  [me \in DOMAIN O |->
     [num_ranks |-> O[me]._num_ranks, rank_indices |-> O[me]._rank_indices,
      rank_domain_offsets |-> C[me].rank_domain_offsets,
      my_neighbors |-> C[me].my_neighbors, man_dists |-> C[me].man_dists]]
BoundingBoxes(C) ==
  [me \in DOMAIN C |-> <<C[me].rank_bb, C[me].ext_bb, C[me].mpi_interior>>]
StorageSizes(O, C) ==
  [me \in DOMAIN O |->
     [rank_sizes |-> O[me]._rank_sizes, global_sizes |-> O[me]._global_sizes,
      domain_size |-> C[me].domain_size, rank_offset |-> C[me].rank_offset,
      left_wf_ext |-> C[me].left_wf_ext, right_wf_ext |-> C[me].right_wf_ext,
      mpiData |-> C[me].mpiData]]
C8_PrepareIdempotent ==
  (lastCall.op = "prepare_solution" /\ lastCall.again) =>
    /\ lastCall.threw = {}
    /\ Topology(opts, kctx) =
         Topology(lastCall.before.opts, lastCall.before.ctx)
    /\ BoundingBoxes(kctx) = BoundingBoxes(lastCall.before.ctx)
    /\ StorageSizes(opts, kctx) =
         StorageSizes(lastCall.before.opts, lastCall.before.ctx)
C8_Witness ==
  /\ lastCall.op = "prepare_solution" /\ lastCall.again /\ lastCall.threw = {}
  /\ lenv.nr = 4 /\ opts[0]._num_ranks = <<2, 2>>
  /\ kctx[3].rank_domain_offsets = <<4, 2>>
  /\ kctx[3].mpiData[<<rank_prev, rank_prev>>].bufSend # NoBuf

\* C9: run_solution() or run_auto_tuner_now() called before
\* prepare_solution() has been called throws on every rank, and no step is
\* evaluated.
C9_RunBeforePrepareThrows ==
  (lastCall.op \in {"run_solution", "run_auto_tuner_now"}
   /\ ~lastCall.called_before) =>
    /\ lastCall.threw = DOMAIN kctx
    /\ lastCall.evaluated = 0
C9_Witness ==
  /\ lastCall.op = "run_auto_tuner_now" /\ ~lastCall.called_before
  /\ lastCall.threw = DOMAIN kctx /\ lastCall.evaluated = 0

(***************************************************************************)
(* Halo exchanges issued by the step loop of run_solution().               *)
(***************************************************************************)
\* Number of steps of the run_solution() call.
NumStepsOfRun(c) == Abs(c.last - c.first) + 1
\* The halo messages of the var packed by the step loop for a neighbour.
LoopSends(r, sd) == SelectSeq(sendLog[r][sd], LAMBDA i : i >= 0)
\* C11: with wave-front tiling of wf_steps = w, a run_solution() call over
\* N steps packs ceil(N / w) halo messages of the dirty var for each
\* neighbour in its step loop, one per stride of w steps; without
\* wave-fronts it packs N, one per step.
C11_ExchangesPerStride ==
  \A r \in Ranks(cfg), sd \in Sides :
    (ctl[r].pc = "done" /\ NeighborRank(cfg, r, sd) # -1) =>
      /\ Len(LoopSends(r, sd)) =
           IF wf_steps(cfg) > 0
             THEN CEIL_DIV(NumStepsOfRun(cfg), wf_steps(cfg))
             ELSE NumStepsOfRun(cfg)
      /\ \A k \in 1..Len(LoopSends(r, sd)) : LoopSends(r, sd)[k] = k - 1
C11_Witness ==
  /\ AllDone
  /\ cfg.nr = 2 /\ cfg.wf = 2 /\ NumStepsOfRun(cfg) = 3
  /\ LoopSends(0, "right") = <<0, 1>>
  /\ LoopSends(1, "left") = <<0, 1>>

(***************************************************************************)
(* calc_region() with temporal blocking: the time loop over strides of     *)
(* tb_steps, the phase loop around the region loops, and calc_block() on   *)
(* every block of the region by the region threads.  tb.work[p][b] is -1   *)
(* before calc_block() of block b in phase p is called, the shape it is    *)
(* working on while it runs, and the number of shapes once it returned.    *)
(***************************************************************************)
\* Bounds: domain dims, blocks in the region, steps of the region.
MaxTBDims == 3
MaxBlocks == 2
MaxTBRange == 3
RECURSIVE choose(_, _)
choose(n, k) ==
  IF k = 0 \/ k = n THEN 1
  ELSE IF k < 0 \/ k > n THEN 0
  ELSE choose(n - 1, k - 1) + choose(n - 1, k)
nphases_nd(nd) == nd
nphases(nd) == nd + 1
nshapes(nd, phase) == choose(nd, phase)
tb_step_dir(t) == IF t.end_t >= t.begin_t THEN 1 ELSE -1
tb_stride_t(t) == Max2(t.tb_steps, 1) * tb_step_dir(t)
tb_num_t(t) == CEIL_DIV(Abs(t.end_t - t.begin_t), Abs(tb_stride_t(t)))
tb_start_t(t) == t.begin_t + t.index_t * tb_stride_t(t)
tb_stop_t(t) ==
  IF tb_stride_t(t) > 0 THEN Min2(tb_start_t(t) + tb_stride_t(t), t.end_t)
  ELSE Max2(tb_start_t(t) + tb_stride_t(t), t.end_t)
NoWork(nd, nblocks) == [p \in 0..(nd + 1) |-> [b \in 1..nblocks |-> -1]]
TBRunning(t) ==
  {pb \in (DOMAIN t.work) \X (1..t.nblocks) :
     t.work[pb[1]][pb[2]] >= 0 /\ t.work[pb[1]][pb[2]] < nshapes(t.nd, pb[1])}
TBRegions ==
  [nd : 1..MaxTBDims, nblocks : 1..MaxBlocks, nthreads : 1..2,
   tb_steps : 1..2, begin_t : {0, MaxTBRange}, end_t : 0..MaxTBRange]
TBInit ==
  /\ EngineOff /\ BBOff /\ LifeOff /\ vec = << >> /\ tx = << >> /\ wfr = << >>
  /\ AuxOff
  /\ \E g \in TBRegions :
       /\ g.begin_t # g.end_t
       /\ tb = [nd |-> g.nd, nblocks |-> g.nblocks, nthreads |-> g.nthreads,
                tb_steps |-> g.tb_steps, begin_t |-> g.begin_t,
                end_t |-> g.end_t, index_t |-> 0, phase |-> 0,
                region_shift_num |-> 0, at |-> "time",
                work |-> NoWork(g.nd, g.nblocks)]
\* The time loop: the next stride of tb_steps, or the return.
TBTimeLoop ==
  /\ tb.at = "time"
  /\ tb' = IF tb.index_t < tb_num_t(tb)
             THEN [tb EXCEPT !.at = "phase", !.phase = 0,
                             !.work = NoWork(tb.nd, tb.nblocks)]
             ELSE [tb EXCEPT !.at = "done"]
  /\ UNCHANGED <<engineVars, bbVars, lifeVars, vec, tx, wfr, auxVars>>
\* The phase loop: enter the region loops of the next phase, or leave.
TBPhaseLoop ==
  /\ tb.at = "phase"
  /\ tb' = IF tb.phase < nphases(tb.nd)
             THEN [tb EXCEPT !.at = "loops"]
             ELSE [tb EXCEPT !.at = "shift"]
  /\ UNCHANGED <<engineVars, bbVars, lifeVars, vec, tx, wfr, auxVars>>
\* A free region thread calls calc_block() on a block of the region loops.
CalcBlockBegin(b) ==
  /\ tb.at = "loops"
  /\ tb.work[tb.phase][b] = -1
  /\ Cardinality(TBRunning(tb)) < tb.nthreads
  /\ tb' = [tb EXCEPT !.work[tb.phase][b] = 0]
  /\ UNCHANGED <<engineVars, bbVars, lifeVars, vec, tx, wfr, auxVars>>
\* calc_block(): the block loops of the next shape of the phase.
CalcBlockShape(p, b) ==
  /\ tb.at = "loops"
  /\ <<p, b>> \in TBRunning(tb)
  /\ tb' = [tb EXCEPT !.work[p][b] = @ + 1]
  /\ UNCHANGED <<engineVars, bbVars, lifeVars, vec, tx, wfr, auxVars>>
\* The region loops end when calc_block() has returned for every block.
RegionLoopsEnd ==
  /\ tb.at = "loops"
  /\ \A b \in 1..tb.nblocks : tb.work[tb.phase][b] = nshapes(tb.nd, tb.phase)
  /\ tb' = [tb EXCEPT !.at = "phase", !.phase = @ + 1]
  /\ UNCHANGED <<engineVars, bbVars, lifeVars, vec, tx, wfr, auxVars>>
\* After the phases: one shift for each pack in each step of the stride.
TBShift ==
  /\ tb.at = "shift"
  /\ tb' = [tb EXCEPT !.at = "time", !.index_t = @ + 1,
                      !.region_shift_num =
                         @ + Abs(tb_stop_t(tb) - tb_start_t(tb)) * NumPacks]
  /\ UNCHANGED <<engineVars, bbVars, lifeVars, vec, tx, wfr, auxVars>>
TBNext ==
  \/ TBTimeLoop
  \/ TBPhaseLoop
  \/ \E b \in 1..tb.nblocks : CalcBlockBegin(b)
  \/ \E p \in DOMAIN tb.work, b \in 1..tb.nblocks : CalcBlockShape(p, b)
  \/ RegionLoopsEnd
  \/ TBShift
SpecTB == TBInit /\ [][TBNext]_<<engineVars, otherVars>>

\* C12: with temporal blocking in n domain dims, every stride of a region
\* runs the phases 0..n, each once and in this order, and calc_block() has
\* returned for every block of phase k before it is called for any block
\* of phase k + 1.
PhaseDone(p) ==
  \A b \in 1..tb.nblocks : tb.work[p][b] = nshapes(tb.nd, p)
C12_PhasesInOrder ==
  /\ \A p \in DOMAIN tb.work, b \in 1..tb.nblocks :
       (p > 0 /\ tb.work[p][b] # -1) => PhaseDone(p - 1)
  /\ tb.at = "shift" =>
       \A p \in DOMAIN tb.work :
         IF p <= tb.nd THEN PhaseDone(p)
         ELSE \A b \in 1..tb.nblocks : tb.work[p][b] = -1
C12_Witness ==
  /\ tb.at = "shift" /\ tb.index_t = 1
  /\ tb.nd = 3 /\ tb.nblocks = 2 /\ tb.nthreads = 2
  /\ PhaseDone(3) /\ tb.work[1][2] = 3

(***************************************************************************)
(* calc_sub_block_vec(): a sub-block [begin, end) in two domain dims is    *)
(* split into full clusters, full and partial vectors and scalars.  A      *)
(* vector holds fold[1] * fold[2] elements; bit k of a write mask stands   *)
(* for the element at the k'th offset of the fold in the order of its      *)
(* layout.  inner is the inner domain dim (2), or 0 when the inner dim is  *)
(* an unfolded dim that is not modelled.  Indices are rank-relative.       *)
(***************************************************************************)
\* Bounds: first and last index of a sub-block in a dim.
MinIdx == 0 - 2
MaxIdx == 3
round_up_flr(n, m) == ((n + m - 1) \div m) * m
round_down_flr(n, m) == (n \div m) * m
idiv_flr(n, m) == n \div m
Pow2(k) == IF k = 0 THEN 1 ELSE 2 ^ k
VecLen(g) == g.fold[1] * g.fold[2]
\* idx_t(-1) on the bits of one vector.
AllOnes(g) == Pow2(VecLen(g)) - 1
Bit(mask, k) == (mask \div Pow2(k)) % 2 = 1
RECURSIVE BitAnd(_, _, _)
BitAnd(a, b, n) ==
  IF n = 0 THEN 0
  ELSE (IF a % 2 = 1 /\ b % 2 = 1 THEN 1 ELSE 0)
       + 2 * BitAnd(a \div 2, b \div 2, n - 1)
FoldPoints(g) == visitAllPoints(g.fold, g.first_inner)
\* The loop over the points of a fold that builds one mask: shift, then set
\* the upper bit when the point at offset base is before lim (lt) or at or
\* after lim (~lt) in dim j.
RECURSIVE MaskLoop(_, _, _, _, _, _, _)
MaskLoop(g, k, mask, j, base, lim, lt) ==
  IF k > VecLen(g) THEN mask
  ELSE
    LET pi == base + FoldPoints(g)[k][j]
        sel == IF lt THEN pi < lim ELSE pi >= lim
    IN MaskLoop(g, k + 1,
                (mask \div 2) + (IF sel THEN Pow2(VecLen(g) - 1) ELSE 0),
                j, base, lim, lt)
\* Ranges of dim j: elements, full clusters, full vectors, all vectors.
SubBlockRanges(g, j) ==
  LET ebgn == g.begin[j] - g.rofs[j]
      eend == g.end[j] - g.rofs[j]
      cpts == g.fold[j] * g.cmults[j]
      fcbgn == round_up_flr(ebgn, cpts)
      fcend == round_down_flr(eend, cpts)
      vpts == g.fold[j]
      outside == fcbgn > ebgn \/ fcend < eend
      is_inner == j = g.inner
      fvbgn == IF ~outside \/ is_inner THEN fcbgn ELSE round_up_flr(ebgn, vpts)
      fvend == IF ~outside \/ is_inner THEN fcend ELSE round_down_flr(eend, vpts)
      vbgn == IF ~outside \/ is_inner THEN fcbgn ELSE round_down_flr(ebgn, vpts)
      vend == IF ~outside \/ is_inner THEN fcend ELSE round_up_flr(eend, vpts)
  IN [ebgn |-> ebgn, eend |-> eend, fcbgn |-> fcbgn, fcend |-> fcend,
      fvbgn |-> fvbgn, fvend |-> fvend, vbgn |-> vbgn, vend |-> vend,
      outside |-> outside,
      masked |-> outside /\ (vbgn < fvbgn \/ vend > fvend)]
peel_masks_all(g, j) == AllOnes(g)
peel_masks(g, j) ==
  LET d == SubBlockRanges(g, j)
  IN IF d.masked
       THEN MaskLoop(g, 1, 0, j, d.vbgn, d.ebgn, FALSE)
       ELSE AllOnes(g)
rem_masks(g, j) ==
  LET d == SubBlockRanges(g, j)
  IN IF d.masked
       THEN MaskLoop(g, 1, 0, j, d.fvend, d.eend, TRUE)
       ELSE AllOnes(g)
do_clusters(g) ==
  \A j \in 1..2 : SubBlockRanges(g, j).fcend > SubBlockRanges(g, j).fcbgn
do_vectors(g) ==
  \E j \in 1..2 :
    LET d == SubBlockRanges(g, j)
    IN d.outside /\ (d.vbgn < d.fcbgn \/ d.vend > d.fcend)
do_scalars(g) ==
  \E j \in 1..2 :
    LET d == SubBlockRanges(g, j)
    IN d.outside /\ j = g.inner /\ (d.ebgn < d.vbgn \/ d.eend > d.vend)
\* The elements of the box [b, e).
BoxOf(b, e) == (b[1]..(e[1] - 1)) \X (b[2]..(e[2] - 1))
\* The vectors of a loop of vectors, in vector units: one index in the
\* dims that are not inner, the whole range of the inner dim.
NormRange(g, j) ==
  idiv_flr(SubBlockRanges(g, j).vbgn, g.fold[j])..
    (idiv_flr(SubBlockRanges(g, j).vend, g.fold[j]) - 1)
\* CALC_INNER_LOOP of the vector code for the loop starting at vector
\* index start: is it outside of the clusters, and with which mask.
InnerLoopOk(g, start) ==
  \E j \in 1..2 :
    /\ j # g.inner
    /\ \/ start[j] < idiv_flr(SubBlockRanges(g, j).fcbgn, g.fold[j])
       \/ start[j] >= idiv_flr(SubBlockRanges(g, j).fcend, g.fold[j])
RECURSIVE InnerLoopMask(_, _, _, _)
InnerLoopMask(g, start, j, mask) ==
  IF j > 2 THEN mask
  ELSE
    LET d == SubBlockRanges(g, j)
        used == /\ j # g.inner
                /\ \/ start[j] < idiv_flr(d.fcbgn, g.fold[j])
                   \/ start[j] >= idiv_flr(d.fcend, g.fold[j])
        m1 == IF used /\ start[j] < idiv_flr(d.fvbgn, g.fold[j])
                THEN BitAnd(mask, peel_masks(g, j), VecLen(g)) ELSE mask
        m2 == IF used /\ start[j] >= idiv_flr(d.fvend, g.fold[j])
                THEN BitAnd(m1, rem_masks(g, j), VecLen(g)) ELSE m1
    IN InnerLoopMask(g, start, j + 1, m2)
\* Elements written by one vector at vector index v under a write mask.
VecWrites(g, v, mask) ==
  {<<v[1] * g.fold[1] + FoldPoints(g)[k][1],
     v[2] * g.fold[2] + FoldPoints(g)[k][2]>> :
     k \in {i \in 1..VecLen(g) : Bit(mask, i - 1)}}
\* Elements written by the vector code of the sub-block.
VectorWrites(g) ==
  UNION {VecWrites(g, v, InnerLoopMask(g, v, 1, AllOnes(g))) :
           v \in {w \in NormRange(g, 1) \X NormRange(g, 2) : InnerLoopOk(g, w)}}
\* Elements written by the cluster code and by the scalar code.
ClusterWrites(g) ==
  BoxOf(<<SubBlockRanges(g, 1).fcbgn, SubBlockRanges(g, 2).fcbgn>>,
        <<SubBlockRanges(g, 1).fcend, SubBlockRanges(g, 2).fcend>>)
ScalarWrites(g) ==
  {pt \in BoxOf(<<SubBlockRanges(g, 1).ebgn, SubBlockRanges(g, 2).ebgn>>,
                 <<SubBlockRanges(g, 1).eend, SubBlockRanges(g, 2).eend>>) :
     \E j \in 1..2 : pt[j] < SubBlockRanges(g, j).vbgn
                      \/ pt[j] >= SubBlockRanges(g, j).vend}
SubBlocks ==
  {g \in [fold : {<<2, 1>>, <<2, 2>>, <<1, 2>>}, cmults : {<<1, 1>>, <<2, 1>>},
           inner : {0, 2}, first_inner : BOOLEAN, rofs : {<<0, 0>>},
           begin : (MinIdx..MaxIdx) \X (MinIdx..MaxIdx),
           end : (MinIdx..MaxIdx) \X (MinIdx..MaxIdx)] :
     g.begin[1] < g.end[1] /\ g.begin[2] < g.end[2]}
VecInit ==
  /\ EngineOff /\ BBOff /\ LifeOff /\ tb = << >> /\ tx = << >> /\ wfr = << >>
  /\ AuxOff
  /\ \E g \in SubBlocks :
       vec = [in |-> g, at |-> "clusters", clusters |-> {}, vectors |-> {},
              scalars |-> {}]
\* The loops over the full clusters.
CalcClusters ==
  /\ vec.at = "clusters"
  /\ vec' = [vec EXCEPT !.at = "vectors",
                        !.clusters = IF do_clusters(vec.in)
                                       THEN ClusterWrites(vec.in) ELSE {}]
  /\ UNCHANGED <<engineVars, bbVars, lifeVars, tb, tx, wfr, auxVars>>
\* The loops over the full and partial vectors around the clusters.
CalcVectors ==
  /\ vec.at = "vectors"
  /\ vec' = [vec EXCEPT !.at = "scalars",
                        !.vectors = IF do_vectors(vec.in)
                                      THEN VectorWrites(vec.in) ELSE {}]
  /\ UNCHANGED <<engineVars, bbVars, lifeVars, tb, tx, wfr, auxVars>>
\* The scalar code for what the vectors do not cover.
CalcScalars ==
  /\ vec.at = "scalars"
  /\ vec' = [vec EXCEPT !.at = "done",
                        !.scalars = IF do_scalars(vec.in)
                                      THEN ScalarWrites(vec.in) ELSE {}]
  /\ UNCHANGED <<engineVars, bbVars, lifeVars, tb, tx, wfr, auxVars>>
VecNext ==
  \/ CalcClusters
  \/ CalcVectors
  \/ CalcScalars
SpecVec == VecInit /\ [][VecNext]_<<engineVars, otherVars>>

\* C13: the vector code of a sub-block writes no element outside of the
\* sub-block's range [begin, end) in any domain dim.
RequestedRange ==
  BoxOf(<<vec.in.begin[1] - vec.in.rofs[1], vec.in.begin[2] - vec.in.rofs[2]>>,
        <<vec.in.end[1] - vec.in.rofs[1], vec.in.end[2] - vec.in.rofs[2]>>)
C13_MaskedWritesInRange == vec.vectors \subseteq RequestedRange
C13_Witness ==
  /\ vec.at = "done"
  /\ vec.in.fold = <<2, 2>> /\ vec.in.inner = 0
  /\ vec.in.begin = <<0 - 1, 1>> /\ vec.in.end = <<3, 3>>
  /\ vec.vectors # {}
  /\ peel_masks(vec.in, 1) # AllOnes(vec.in)
  /\ rem_masks(vec.in, 2) # AllOnes(vec.in)
\* The three kinds of code together write every element of the range.
SubBlockCovered ==
  vec.at = "done" =>
    vec.clusters \cup vec.vectors \cup vec.scalars = RequestedRange

\* C14: in every run_solution() call that returns normally on a rank, the
\* hooks registered for the end of run_solution are called, after the hooks
\* registered for its beginning.
C14_AfterHooksAtEnd ==
  lastCall.op = "run_solution" =>
    \A me \in DOMAIN kctx :
      me \notin lastCall.threw => lastCall.hooks[me] = <<"before", "after">>
C14_Witness ==
  /\ lastCall.op = "run_solution"
  /\ lenv.nr = 2 /\ lastCall.threw = {} /\ lastCall.evaluated = 2
  /\ lastCall.hooks[1] = <<"before", "after">>
  /\ bb_size(kctx[1].ext_bb) = 4

\* Two ranks in a line along a dim (at the same index in every other dim)
\* differ in their local size in one of the other dims, or in that dim.
UnalignedAcross(O) ==
  \E me \in DOMAIN O, rn \in DOMAIN O, di \in 1..nddims :
    /\ is_inline(O, me, rn, di)
    /\ \E dj \in 1..nddims \ {di} : O[me]._rank_sizes[dj] # O[rn]._rank_sizes[dj]
UnequalAlong(O) ==
  \E me \in DOMAIN O, rn \in DOMAIN O, di \in 1..nddims :
    is_inline(O, me, rn, di) /\ O[me]._rank_sizes[di] # O[rn]._rank_sizes[di]
\* C15 as stated: prepare_solution fails unless all ranks at the same index
\* in every other dim have the same local size in the current dim.
C15_SameSizeAlongLine ==
  lastCall.op = "prepare_solution" =>
    (UnequalAlong(opts) => lastCall.threw # {})
\* C15: prepare_solution fails unless all ranks at the same index in every
\* other dim than the current one, i.e. in a line along the current dim,
\* have the same local size in every other dim; their sizes in the current
\* dim may differ.
C15_AlignedAcrossLine ==
  lastCall.op = "prepare_solution" =>
    (UnalignedAcross(opts) => lastCall.threw # {})
C15_Witness ==
  /\ lastCall.op = "prepare_solution" /\ lastCall.threw = {0, 1}
  /\ lenv.nr = 2
  /\ opts[0]._num_ranks = <<2, 1>>
  /\ opts[0]._rank_indices = <<0, 0>> /\ opts[1]._rank_indices = <<1, 0>>
  /\ opts[0]._rank_sizes = <<2, 2>> /\ opts[1]._rank_sizes = <<2, 3>>
  /\ opts[0]._global_sizes[1] = 4
\* Two ranks side by side in the 1st dim with different sizes in it are
\* accepted.
C15_UnequalAccepted ==
  /\ lastCall.op = "prepare_solution" /\ lastCall.threw = {}
  /\ lenv.nr = 2
  /\ opts[0]._rank_indices = <<0, 0>> /\ opts[1]._rank_indices = <<1, 0>>
  /\ opts[0]._rank_sizes = <<2, 2>> /\ opts[1]._rank_sizes = <<3, 2>>

\* No numbers of ranks per dim that keep the given non-zero ones have a
\* product of nr.
NoAssignment(nr, given) ==
  ~\E n \in (1..nr) \X (1..nr) :
     /\ n[1] * n[2] = nr
     /\ \A j \in 1..nddims : given[j] # 0 => n[j] = given[j]
\* C16: when no assignment of numbers of ranks per dim that keeps the given
\* non-zero ones has a product equal to the number of MPI ranks,
\* prepare_solution throws an exception.
C16_NoAssignmentThrows ==
  (/\ lastCall.op \in {"prepare_solution", "abort"}
   /\ lastCall.before.opts[0]._num_ranks # << >>
   /\ NoAssignment(lenv.nr, lastCall.before.opts[0]._num_ranks)) =>
    (lastCall.op = "prepare_solution" /\ lastCall.threw = DOMAIN opts)
\* With all numbers given, a product that differs from the number of ranks
\* is rejected by an exception.
C16_GivenMismatchThrows ==
  (/\ lastCall.op \in {"prepare_solution", "abort"}
   /\ lastCall.before.opts[0]._num_ranks # << >>
   /\ Product(lastCall.before.opts[0]._num_ranks) \notin {0, lenv.nr}) =>
    (lastCall.op = "prepare_solution" /\ lastCall.threw = DOMAIN opts)

\* The layouts of nr ranks that keep the given non-zero numbers.
LegalLayouts(nr, given) ==
  {n \in (1..nr) \X (1..nr) :
     /\ n[1] * n[2] = nr
     /\ \A j \in 1..nddims : given[j] # 0 => n[j] = given[j]}
\* prepare_solution was called with a zero among the numbers of ranks, with
\* a size given in every dim and with a legal layout to find.
LayoutSearched ==
  /\ lastCall.op = "prepare_solution"
  /\ lastCall.before.opts[0]._num_ranks # << >>
  /\ Product(lastCall.before.opts[0]._num_ranks) = 0
  /\ LegalLayouts(lenv.nr, lastCall.before.opts[0]._num_ranks) # {}
  /\ \A me \in DOMAIN opts, j \in 1..nddims :
       lastCall.before.opts[me]._global_sizes[j] # 0
       \/ lastCall.before.opts[me]._rank_sizes[j] # 0
\* C17: when the number of ranks is zero in some dim, prepare_solution sets
\* the numbers of ranks to a layout whose product is the number of ranks,
\* that keeps the given non-zero numbers, and whose largest number is the
\* smallest among all such layouts.
C17_MostCompactLayout ==
  LayoutSearched =>
    \A me \in DOMAIN opts :
      /\ \E n \in LegalLayouts(lenv.nr, lastCall.before.opts[0]._num_ranks) :
           \A j \in 1..nddims : opts[me]._num_ranks[j] = n[j]
      /\ \A n \in LegalLayouts(lenv.nr, lastCall.before.opts[0]._num_ranks) :
           \E j \in 1..nddims :
             \A k \in 1..nddims : opts[me]._num_ranks[k] <= n[j]
C17_Witness ==
  /\ LayoutSearched
  /\ lenv.nr = 4 /\ lastCall.threw = {}
  /\ lastCall.before.opts[0]._num_ranks = <<0, 0>>
  /\ opts[3]._num_ranks = <<2, 2>>

\* The sum of the local sizes in dim j of the ranks from rn on that lie in
\* a line with rank me along dim j.
RECURSIVE SumAlongLine(_, _, _, _)
SumAlongLine(O, me, j, rn) ==
  IF rn \notin DOMAIN O THEN 0
  ELSE (IF \A k \in 1..nddims \ {j} :
              O[rn]._rank_indices[k] = O[me]._rank_indices[k]
          THEN O[rn]._rank_sizes[j] ELSE 0)
       + SumAlongLine(O, me, j, rn + 1)
\* C18: after a prepare_solution that succeeds, the global-domain size of
\* every domain dim is the sum of the local-domain sizes of the ranks in a
\* line along that dim, whether the local sizes were given or derived.
C18_GlobalIsSumOfLocals ==
  (lastCall.op = "prepare_solution" /\ lastCall.threw = {}) =>
    \A me \in DOMAIN opts, j \in 1..nddims :
      opts[me]._global_sizes[j] = SumAlongLine(opts, me, j, 0)
\* Two ranks in a line: the sizes of the 1st dim are derived from a global
\* size of 6, the last rank getting the remainder; those of the 2nd dim are
\* given and the global size is their sum.
C18_Witness ==
  /\ lastCall.op = "prepare_solution" /\ lastCall.threw = {}
  /\ lenv.nr = 2 /\ opts[0]._num_ranks = <<2, 1>>
  /\ lastCall.before.opts[1]._rank_sizes = <<0, 2>>
  /\ lastCall.before.opts[1]._global_sizes = <<6, 0>>
  /\ opts[0]._rank_sizes[1] = 4 /\ opts[1]._rank_sizes[1] = 2
  /\ opts[1]._global_sizes = <<6, 2>>

(***************************************************************************)
(* exchange_halos(): the MPI tags of one exchange between two neighbouring *)
(* ranks with several vars.  Vars are numbered in the order of their names *)
(* in the var map; a message carries the var whose halo was packed.        *)
(***************************************************************************)
\* Bound: the number of vars with MPI buffers.
NumSwapVars == 3
SwapVars == 1..NumSwapVars
TxRanks == {0, 1}
\* varsToSwap: the dirty vars in the order of their names.
varsToSwap(dirty) ==
  [k \in 1..Cardinality(dirty) |->
     CHOOSE v \in dirty : Cardinality({w \in dirty : w < v}) = k - 1]
\* The position of a var in the map of all vars.
gi_of_all(dirty, k) == varsToSwap(dirty)[k]
\* gi: the tag used for the k-th var of varsToSwap.
gi(dirty, k) == k
TxInit ==
  /\ EngineOff /\ BBOff /\ LifeOff /\ tb = << >> /\ vec = << >> /\ wfr = << >>
  /\ AuxOff
  /\ \E dirty \in SUBSET SwapVars :
       tx = [dirty |-> dirty,
             halo_step |-> [r \in TxRanks |-> "halo_irecv"],
             k |-> [r \in TxRanks |-> 1],
             recv_tag |-> [r \in TxRanks |-> [v \in SwapVars |-> 0]],
             send_tag |-> [r \in TxRanks |-> [v \in SwapVars |-> 0]],
             net |-> {},
             recvBuf |-> [r \in TxRanks |-> [v \in SwapVars |-> 0]]]
TxVar(r) == varsToSwap(tx.dirty)[tx.k[r]]
TxMore(r) == tx.k[r] <= Cardinality(tx.dirty)
\* The end of the loop over the vars in a halo step.
TxNextStep(r) ==
  /\ ~TxMore(r)
  /\ tx.halo_step[r] \in {"halo_irecv", "halo_pack_isend", "halo_unpack"}
  /\ tx' = [tx EXCEPT
              !.halo_step[r] =
                IF @ = "halo_irecv" THEN "halo_pack_isend"
                ELSE IF @ = "halo_pack_isend" THEN "halo_unpack"
                ELSE "halo_final",
              !.k[r] = 1]
  /\ UNCHANGED <<engineVars, bbVars, lifeVars, tb, vec, wfr, auxVars>>
\* halo_irecv: MPI_Irecv for the next var from the neighbour.
TxIrecv(r) ==
  /\ tx.halo_step[r] = "halo_irecv" /\ TxMore(r)
  /\ tx' = [tx EXCEPT !.recv_tag[r][TxVar(r)] = gi(tx.dirty, tx.k[r]),
                      !.k[r] = @ + 1]
  /\ UNCHANGED <<engineVars, bbVars, lifeVars, tb, vec, wfr, auxVars>>
\* halo_pack_isend: pack the halo of the next var and MPI_Isend it.
TxPackIsend(r) ==
  /\ tx.halo_step[r] = "halo_pack_isend" /\ TxMore(r)
  /\ tx' = [tx EXCEPT
              !.send_tag[r][TxVar(r)] = gi(tx.dirty, tx.k[r]),
              !.net = @ \cup {[src |-> r, dst |-> 1 - r,
                               tag |-> gi(tx.dirty, tx.k[r]),
                               data |-> TxVar(r)]},
              !.k[r] = @ + 1]
  /\ UNCHANGED <<engineVars, bbVars, lifeVars, tb, vec, wfr, auxVars>>
\* MPI: a message matches the receive request with its source and tag and
\* fills the buffer of the var the request was made for.
TxMatch(m) ==
  /\ m \in tx.net
  /\ \E v \in SwapVars :
       /\ tx.recv_tag[m.dst][v] = m.tag
       /\ tx.recvBuf[m.dst][v] = 0
       /\ tx' = [tx EXCEPT !.net = @ \ {m}, !.recvBuf[m.dst][v] = m.data]
  /\ UNCHANGED <<engineVars, bbVars, lifeVars, tb, vec, wfr, auxVars>>
\* halo_unpack: wait for the receive of the next var and unpack it.
TxUnpack(r) ==
  /\ tx.halo_step[r] = "halo_unpack" /\ TxMore(r)
  /\ tx.recvBuf[r][TxVar(r)] # 0
  /\ tx' = [tx EXCEPT !.k[r] = @ + 1]
  /\ UNCHANGED <<engineVars, bbVars, lifeVars, tb, vec, wfr, auxVars>>
TxNext ==
  \/ \E r \in TxRanks : TxIrecv(r)
  \/ \E r \in TxRanks : TxPackIsend(r)
  \/ \E m \in tx.net : TxMatch(m)
  \/ \E r \in TxRanks : TxUnpack(r)
  \/ \E r \in TxRanks : TxNextStep(r)
SpecTx == TxInit /\ [][TxNext]_<<engineVars, otherVars>>

\* The ordinal of a var among the vars that are dirty, and so swapped.
OrdinalInSwap(v) == Cardinality({w \in tx.dirty : w <= v})
NeighborSides(r) == {sd \in Sides : NeighborRank(cfg, r, sd) # -1}
CallTag(r) == IF ctl[r].pc = "xinit" THEN 0 - 1 ELSE ctl[r].idx
AllFourPhases(r) ==
  /\ InExchange(r)
  /\ steps_to_do(swap[r], flags[r]) =
       <<"halo_irecv", "halo_pack_isend", "halo_unpack", "halo_final">>
\* The send to neighbour sd of the current call was packed and released
\* or sent.
SentInCall(r, sd) ==
  /\ sendLog[r][sd] # << >>
  /\ sendLog[r][sd][Len(sendLog[r][sd])] = CallTag(r)
NumCalls(r) == Len(swap[r].calls)
LastCall(r) == swap[r].calls[NumCalls(r)]
StepsOfVisits(r) == {CurVisits(r)[i].step : i \in 1..Len(CurVisits(r))}
\* C22: with overlap, the exchange_halos() call after the exterior passes
\* runs only halo_irecv and halo_pack_isend and leaves every dirty step
\* dirty until the interior pass is done; the call after the interior pass
\* of the same stride finds the same dirty steps, runs only halo_unpack
\* and halo_final, and when it has returned every receive and send request
\* of the rank is complete and the swapped steps are clean.
C22_OverlapExchangeSplit ==
  \A r \in Ranks(cfg) :
    mpi_interior(cfg, r).bb_valid =>
      /\ ctl[r].pc = "xext" =>
           /\ StepsOfVisits(r) \subseteq {"halo_irecv", "halo_pack_isend"}
           /\ LastCall(r).pc = "xext"
           /\ DirtySteps(meta[r]) = LastCall(r).dirty
      /\ ctl[r].pc = "main" =>
           /\ LastCall(r).pc = "xext" /\ LastCall(r).idx = ctl[r].idx
           /\ DirtySteps(meta[r]) = LastCall(r).dirty
           /\ DirtySteps(meta[r]) # {}
           /\ \A sd \in NeighborSides(r) :
                /\ sendLog[r][sd][Len(sendLog[r][sd])] = ctl[r].idx
                /\ ~using_shm(cfg, r, sd) =>
                     /\ recvReq[r][sd] \in {"posted", "complete"}
                     /\ sendReq[r][sd] \in {"active", "complete"}
      /\ ctl[r].pc = "xmain" =>
           /\ StepsOfVisits(r) = {"halo_unpack", "halo_final"}
           /\ swap[r].calls[NumCalls(r) - 1].pc = "xext"
           /\ swap[r].calls[NumCalls(r) - 1].idx = LastCall(r).idx
           /\ swap[r].calls[NumCalls(r) - 1].dirty = LastCall(r).dirty
      /\ (ctl[r].pc \in {"loop", "done"} /\ NumCalls(r) > 1) =>
           /\ LastCall(r).pc = "xmain"
           /\ DirtySteps(meta[r]) = {}
           /\ \A sd \in NeighborSides(r) :
                recvReq[r][sd] = "null" /\ sendReq[r][sd] = "null"
C22_Witness ==
  /\ cfg.nr = 2 /\ cfg.ovl /\ ~cfg.shm
  /\ ctl[0].pc = "loop" /\ ctl[1].pc = "main"
  /\ NumCalls(0) = 3 /\ LastCall(0).pc = "xmain" /\ LastCall(0).dirty # {}
  /\ swap[0].calls[2].pc = "xext"
\* The evaluations a rank makes in its first k strides when every region
\* is evaluated whole (no MPI section is active).
RECURSIVE WholeLog(_, _, _, _)
WholeLog(c, r, k, st) ==
  IF k = 0 THEN st.log
  ELSE RankLoops(c, r, AllFlags,
                 [v |-> st.v, log |-> WholeLog(c, r, k - 1, st)],
                 RankBegin(c, r), start_t(c, k - 1), stop_t(c, k - 1)).log
\* How often the pack was evaluated at step t on point x in a log.
TimesEvaluated(log, t, x) ==
  Len(SelectSeq(log, LAMBDA en : en.t = t /\ en.b <= x /\ x < en.e))
\* The strides rank r has evaluated in full.
DoneStrides(r) == IF ctl[r].pc = "xmain" THEN ctl[r].idx + 1 ELSE ctl[r].idx
SendPoints(c, r) ==
  UNION {SendRange(c, r, sd).b..(SendRange(c, r, sd).e - 1) :
           sd \in {sd \in Sides : NeighborRank(c, r, sd) # -1}}
\* The evaluations a step of rank r appends to its log.
NewEvals(r) == SubSeq(evalLog'[r], Len(evalLog[r]) + 1, Len(evalLog'[r]))
\* C24: the interior pass of a stride, made after the send buffers were
\* packed, evaluates at every wave-front shift no point of a range that
\* is packed into a send buffer of the rank.
C24_InteriorOutsideSendRanges ==
  [][\A r \in Ranks(cfg) :
       (ctl[r].pc = "main" /\ ctl'[r].pc # "main") =>
          \A k \in 1..Len(NewEvals(r)) :
            (NewEvals(r)[k].b..(NewEvals(r)[k].e - 1)) \cap SendPoints(cfg, r) = {}
    ]_engineVars
\* The first of two ranks has evaluated the second step of a wave-front
\* stride on its interior, which the first shift has opened.
C24_Witness ==
  /\ cfg.nr = 2 /\ cfg.ovl /\ cfg.wf = 2 /\ cfg.first = 0
  /\ ctl[0].pc = "xmain" /\ ctl[0].idx = 0
  /\ evalLog[0][Len(evalLog[0])].t = 1
  /\ evalLog[0][Len(evalLog[0])].b = 0 /\ evalLog[0][Len(evalLog[0])].e = 1
  /\ SendPoints(cfg, 0) = {1, 2}
InteriorOnly == [left |-> FALSE, right |-> FALSE, interior |-> TRUE]
\* C25: do_mpi_left, do_mpi_right and do_mpi_interior are all true when
\* run_solution() starts a stride and when it has finished one; with
\* overlap, every evaluation is made either in an exterior pass, with
\* exactly one of do_mpi_left and do_mpi_right true and do_mpi_interior
\* false, or in the interior pass, with only do_mpi_interior true; without
\* overlap every evaluation is made with all three true.
C25_OverlapFlags ==
  \A r \in Ranks(cfg) :
    /\ ctl[r].pc \in {"call", "xinit", "loop", "done"} => flags[r] = AllFlags
    /\ ctl[r].pc = "main" => flags[r] = InteriorOnly
    /\ ctl[r].pc = "xmain" =>
         flags[r] = IF mpi_interior(cfg, r).bb_valid THEN InteriorOnly ELSE AllFlags
    /\ \A k \in 1..Len(evalLog[r]) :
         LET f == evalLog[r][k].f
         IN IF mpi_interior(cfg, r).bb_valid
              THEN \/ f = InteriorOnly
                   \/ ~f.interior /\ (f.left # f.right)
              ELSE f = AllFlags
\* The middle one of three ranks is at the start of its second stride
\* after a left, a right and an interior pass.
C25_Witness ==
  /\ cfg.nr = 3 /\ cfg.ovl /\ cfg.wf = 0
  /\ ctl[1].pc = "loop" /\ ctl[1].idx = 1 /\ flags[1] = AllFlags
  /\ Len(evalLog[1]) = 3
  /\ evalLog[1][1].f = [left |-> TRUE, right |-> FALSE, interior |-> FALSE]
  /\ evalLog[1][2].f = [left |-> FALSE, right |-> TRUE, interior |-> FALSE]
  /\ evalLog[1][3].f = InteriorOnly
\* C26: when an exchange_halos() call that runs halo_final returns, no
\* step of [first step swapped, last step swapped] of the var selected in
\* the call is dirty, and so no step that was dirty when the call
\* selected the var.
C26_SwappedStepsClean ==
  [][\A r \in Ranks(cfg) :
       (InExchange(r) /\ CurVisit(r).step = "halo_final" /\ ~InExchange(r)') =>
          /\ swap[r].any
          /\ \A t \in swap[r].first..swap[r].last : ~is_dirty(meta'[r], t)
          /\ \A t \in LastCall(r).dirty : ~is_dirty(meta'[r], t)
    ]_engineVars
\* A rank has left the exchange of the two steps of a wave-front stride.
C26_Witness ==
  /\ cfg.nr = 2 /\ cfg.wf = 2 /\ ~cfg.ovl
  /\ ctl[0].pc = "done" /\ LastCall(0).pc = "xmain"
  /\ swap[0].any /\ swap[0].last = swap[0].first + 1
  /\ LastCall(0).dirty = {swap[0].first, swap[0].last}
  /\ DirtySteps(meta[0]) = {}
\* The halo of rank r on side sd holds at step t what the neighbour holds
\* at the same points of its domain.
HaloHolds(r, sd, t) ==
  \A x \in RecvRange(cfg, r, sd).b..(RecvRange(cfg, r, sd).e - 1) :
    vals[r][_wrap_step(t)][x] = vals[NeighborRank(cfg, r, sd)][_wrap_step(t)][x]
\* C27: when a rank with neighbours starts the evaluation of a stride, the
\* exchange of the step t the stride reads first is complete on the rank: t
\* is not dirty,
\* no receive is outstanding, and the halo holds the values of t of every
\* neighbour that still holds step t.
C27_ExchangeBeforeNextStride ==
  [][\A r \in Ranks(cfg) :
       (ctl[r].pc = "loop" /\ ctl'[r].pc # "loop" /\ NeighborSides(r) # {}) =>
          /\ ~is_dirty(meta[r], start_t(cfg, ctl[r].idx))
          /\ \A sd \in NeighborSides(r) :
               /\ recvReq[r][sd] = "null"
               /\ start_t(cfg, ctl[r].idx) \in
                    ValidSteps(meta[NeighborRank(cfg, r, sd)]) =>
                      HaloHolds(r, sd, start_t(cfg, ctl[r].idx))
    ]_engineVars
\* Rank 0 is about to start its second stride, which reads the step its
\* last exchange swapped, while rank 1 is still in that exchange.
C27_Witness ==
  /\ cfg.nr = 2 /\ cfg.wf = 0
  /\ ctl[0].pc = "loop" /\ ctl[0].idx = 1
  /\ ctl[1].pc = "xmain" /\ ctl[1].idx = 0
  /\ LastCall(0).pc = "xmain"
  /\ start_t(cfg, 1) \in LastCall(0).dirty
  /\ HaloHolds(0, "right", start_t(cfg, 1))
  /\ vals[0][_wrap_step(start_t(cfg, 1))][RecvRange(cfg, 0, "right").b] #
       InitVals(cfg, 0)[_wrap_step(start_t(cfg, 1))][RecvRange(cfg, 0, "right").b]
\* The first steps of the strides of the run.
StrideStarts(c) == {start_t(c, i) : i \in 0..(num_t(c) - 1)}
\* The points whose values of the input step an evaluation of [b, e)
\* reads: the stencil neighbourhood, inside the global domain.
NeededPoints(c, en) ==
  {x \in (en.b - HaloSize.left)..(en.e - 1 + HaloSize.right) : InGlobal(c, x)}
\* The points of rank r whose values an exchange_halos() call leaves up to
\* date: its domain and its halos, which hold the wave-front extension.
ExchangedPoints(c, r) ==
  (rank_bb(c, r).bb_begin - my_halo_sizes(c, "left"))..
     (rank_bb(c, r).bb_end - 1 + my_halo_sizes(c, "right"))
\* C28: every point of the global domain that an evaluation of a
\* wave-front tile reads at its input step was written for that step by
\* an earlier evaluation of the rank at the previous shift, or, at the
\* first step of a stride, is a point of the rank's domain or halo, which
\* the halo exchange before the stride supplied.
C28_ShiftedRegionInputsReady ==
  \A r \in Ranks(cfg) :
    \A k \in 1..Len(evalLog[r]) :
      \A x \in NeededPoints(cfg, evalLog[r][k]) :
        IF evalLog[r][k].t \in StrideStarts(cfg)
          THEN x \in ExchangedPoints(cfg, r)
          ELSE \E j \in 1..(k - 1) :
                 /\ evalLog[r][j].t + step_dir(cfg) = evalLog[r][k].t
                 /\ evalLog[r][j].b <= x /\ x < evalLog[r][j].e
\* The middle one of three ranks has evaluated the second step of a
\* wave-front stride on a region that starts in its left extension.
C28_Witness ==
  /\ cfg.nr = 3 /\ cfg.wf = 2 /\ ~cfg.ovl
  /\ Len(evalLog[1]) = 2
  /\ evalLog[1][2].t = start_t(cfg, 0) + step_dir(cfg)
  /\ evalLog[1][1].b = rank_bb(cfg, 1).bb_begin - wf_shift_pts(cfg)
  /\ evalLog[1][2].b = evalLog[1][1].b + wf_angle(cfg)
  /\ evalLog[1][2].e = evalLog[1][1].e - wf_angle(cfg)
(***************************************************************************)
(* The wave-front shift numbers of one stride of run_solution() on one     *)
(* region: calc_region() counts region_shift_num over the packs and steps  *)
(* it evaluates, and with temporal blocking calc_mini_block() counts       *)
(* shift_num over the packs and steps of a block on top of it.             *)
(***************************************************************************)
MaxPacks == 2
MaxWfSteps == 2
MaxMiniBlocks == 2
WfAngles == {1, 2}
\* The step condition of a pack, a predicate of the input step index.
StepConds == {"all", "even", "odd"}
is_in_valid_step(cond, t) ==
  \/ cond = "all"
  \/ cond = "even" /\ t % 2 = 0
  \/ cond = "odd" /\ t % 2 = 1
\* update_grid_info(): the number of shifts of a wave-front.
NumWfShifts(np, ws) == IF ws > 0 /\ np * ws > 0 THEN np * ws - 1 ELSE 0
wfr_stride_t_long(ws) == Max2(ws, 1) + 1
\* run_solution(): the number of steps in a stride.
wfr_stride_t(ws) == Max2(ws, 1)
\* calc_region(): the time loop in strides of tb_steps.
wfr_dir(w) == IF w.end_t >= w.begin_t THEN 1 ELSE -1
wfr_num_t(w) == CEIL_DIV(Abs(w.end_t - w.begin_t), Max2(w.tb_steps, 1))
wfr_start_t(w) == w.begin_t + w.index_t * Max2(w.tb_steps, 1) * wfr_dir(w)
wfr_stop_t(w) ==
  IF wfr_dir(w) > 0
    THEN Min2(wfr_start_t(w) + Max2(w.tb_steps, 1), w.end_t)
    ELSE Max2(wfr_start_t(w) - Max2(w.tb_steps, 1), w.end_t)
\* A pack is passed over when another pack is selected or its step
\* condition does not hold.
SkipPack(w, p, t) ==
  \/ w.sel # 0 /\ w.sel # p
  \/ w.check_step_conds /\ ~is_in_valid_step(w.conds[p], t)
\* A call of shift_region() with shift number n.
ShiftRegionCall(w, n) == [w EXCEPT !.max_shift = Max2(@, n), !.calls = @ + 1]
WfrInit ==
  /\ EngineOff /\ BBOff /\ LifeOff
  /\ tb = << >> /\ vec = << >> /\ tx = << >> /\ AuxOff
  /\ \E np \in 1..MaxPacks, region_steps \in 0..MaxWfSteps,
        block_steps \in 0..MaxWfSteps, act \in 0..MaxWfSteps,
        angle \in WfAngles, check \in BOOLEAN, first \in {0, 1},
        dir \in {1, 0 - 1}, n \in 1..(MaxWfSteps + 1), sel \in 0..MaxPacks,
        nmb \in 1..MaxMiniBlocks :
       \E conds \in [1..np -> StepConds] :
         LET ws == Max2(region_steps, block_steps)
         IN /\ act <= Min2(block_steps, ws)
            /\ n <= wfr_stride_t(ws)
            /\ sel <= np
            /\ sel = 0 <=> ws > 0
            /\ sel # 0 => ~(check /\ ~is_in_valid_step(conds[sel], first))
            /\ act = 0 => nmb = 1
            /\ wfr = [np |-> np, wf_steps |-> ws, tb_steps |-> act,
                      angle |-> angle, conds |-> conds,
                      check_step_conds |-> check, sel |-> sel,
                      begin_t |-> first, end_t |-> first + dir * n,
                      nmb |-> nmb, at |-> "time", index_t |-> 0, pk |-> 1,
                      mb |-> 0, mt |-> 0, shift_num |-> 0,
                      region_shift_num |-> 0, max_shift |-> 0 - 1,
                      calls |-> 0]
\* calc_region(): the next stride of the time loop, or the return.  With
\* temporal blocking the region is shifted before the block loops.
WfrTimeLoop ==
  /\ wfr.at = "time"
  /\ wfr' = IF wfr.index_t >= wfr_num_t(wfr) THEN [wfr EXCEPT !.at = "done"]
            ELSE IF wfr.tb_steps = 0 THEN [wfr EXCEPT !.at = "packs", !.pk = 1]
            ELSE [ShiftRegionCall(wfr, wfr.region_shift_num)
                    EXCEPT !.at = "blocks", !.mb = 0]
  /\ UNCHANGED <<engineVars, bbVars, lifeVars, tb, vec, tx, auxVars>>
\* calc_region() without temporal blocking: the next pack of the step.
WfrPack ==
  /\ wfr.at = "packs" /\ wfr.pk <= wfr.np
  /\ wfr' = IF SkipPack(wfr, wfr.pk, wfr_start_t(wfr))
              THEN [wfr EXCEPT !.pk = @ + 1]
              ELSE [ShiftRegionCall(wfr, wfr.region_shift_num)
                      EXCEPT !.pk = @ + 1, !.region_shift_num = @ + 1]
  /\ UNCHANGED <<engineVars, bbVars, lifeVars, tb, vec, tx, auxVars>>
WfrPacksEnd ==
  /\ wfr.at = "packs" /\ wfr.pk > wfr.np
  /\ wfr' = [wfr EXCEPT !.at = "time", !.index_t = @ + 1]
  /\ UNCHANGED <<engineVars, bbVars, lifeVars, tb, vec, tx, auxVars>>
\* calc_mini_block() is called for a mini-block of the stride.
WfrMiniBlockBegin ==
  /\ wfr.at = "blocks" /\ wfr.mb < wfr.nmb
  /\ wfr' = [wfr EXCEPT !.at = "mini", !.mt = 0, !.pk = 1, !.shift_num = 0]
  /\ UNCHANGED <<engineVars, bbVars, lifeVars, tb, vec, tx, auxVars>>
\* calc_mini_block(): the next pack of the next step of the block.
WfrMiniPack ==
  /\ wfr.at = "mini"
  /\ wfr.mt < Abs(wfr_stop_t(wfr) - wfr_start_t(wfr))
  /\ LET t == wfr_start_t(wfr) + wfr.mt * wfr_dir(wfr)
         w1 == IF SkipPack(wfr, wfr.pk, t) THEN wfr
               ELSE [ShiftRegionCall(wfr, wfr.region_shift_num + wfr.shift_num)
                       EXCEPT !.shift_num = @ + 1]
     IN wfr' = IF wfr.pk < wfr.np THEN [w1 EXCEPT !.pk = @ + 1]
               ELSE [w1 EXCEPT !.pk = 1, !.mt = @ + 1]
  /\ UNCHANGED <<engineVars, bbVars, lifeVars, tb, vec, tx, auxVars>>
WfrMiniBlockEnd ==
  /\ wfr.at = "mini"
  /\ wfr.mt = Abs(wfr_stop_t(wfr) - wfr_start_t(wfr))
  /\ wfr' = [wfr EXCEPT !.at = "blocks", !.mb = @ + 1]
  /\ UNCHANGED <<engineVars, bbVars, lifeVars, tb, vec, tx, auxVars>>
\* calc_region() with temporal blocking, after the phases: one shift for
\* each pack evaluated in each step of the stride.
WfrTBShift ==
  /\ wfr.at = "blocks" /\ wfr.mb = wfr.nmb
  /\ wfr' = [wfr EXCEPT
               !.at = "time", !.index_t = @ + 1,
               !.region_shift_num =
                  @ + Cardinality(
                        {tp \in (0..(Abs(wfr_stop_t(wfr) - wfr_start_t(wfr)) - 1))
                                 \X (1..wfr.np) :
                           ~(wfr.check_step_conds /\
                             ~is_in_valid_step(
                                wfr.conds[tp[2]],
                                wfr_start_t(wfr) + tp[1] * wfr_dir(wfr)))})]
  /\ UNCHANGED <<engineVars, bbVars, lifeVars, tb, vec, tx, auxVars>>
WfrNext ==
  \/ WfrTimeLoop
  \/ WfrPack
  \/ WfrPacksEnd
  \/ WfrMiniBlockBegin
  \/ WfrMiniPack
  \/ WfrMiniBlockEnd
  \/ WfrTBShift
SpecWfr == WfrInit /\ [][WfrNext]_<<engineVars, otherVars>>

\* C29: no shift_region() call of a stride is passed a shift number above
\* num_wf_shifts = num_packs * wf_steps - 1 (0 without wave-fronts), so no
\* region is shifted by more than wf_shift_pts = wf_angle * num_wf_shifts,
\* without and with temporal blocking and with packs passed over by their
\* step conditions.
C29_ShiftNumBounded ==
  /\ wfr.max_shift <= NumWfShifts(wfr.np, wfr.wf_steps)
  /\ wfr.angle * wfr.max_shift <= wfr.angle * NumWfShifts(wfr.np, wfr.wf_steps)
  /\ wfr.at = "mini" =>
       wfr.region_shift_num + wfr.shift_num <=
         NumWfShifts(wfr.np, wfr.wf_steps) + 1
\* Two packs in a wave-front of two steps with temporal blocks of one
\* step: the second pack was passed over in the second step, and the last
\* shift number passed was 2 of at most 3.
C29_Witness ==
  /\ wfr.at = "done"
  /\ wfr.np = 2 /\ wfr.wf_steps = 2 /\ wfr.tb_steps = 1
  /\ wfr.check_step_conds /\ wfr.conds = <<"all", "even">>
  /\ wfr.begin_t = 0 /\ wfr.end_t = 2
  /\ wfr.max_shift = 2 /\ wfr.region_shift_num = 3

(***************************************************************************)
(* The halo buffers of adjacent ranks after prepare_solution().            *)
(***************************************************************************)
\* The offsets at which the neighbour at offsets n sees this rank.
Opposite(n) == <<rank_next - n[1], rank_next - n[2]>>
\* The halo a neighbour at offsets n keeps on its side toward this rank in
\* dim j: its right halo if it is to the left, its left halo if it is to
\* the right, plus its wave-front shifts.
neighbour_halo(C, nb, n, j) ==
  (IF n[j] = rank_prev THEN HaloSize.right ELSE HaloSize.left)
    + C[nb].wf_shift_pts[j]
\* The pairs of a rank and the offsets of a neighbour it has a send buffer for.
SendPairs ==
  {p \in (DOMAIN kctx) \X NeighborOffsets :
     kctx[p[1]].mpiData[p[2]].bufSend # NoBuf}

MaxRegionThreads == 3
MaxPokeBlocks == 3
\* The thread that calls run_solution().
DriverThread == 0
\* The sections of a pack: the exterior passes that exist, the exchange of
\* the exterior, the interior and the last exchange; without overlap the
\* whole rank and one exchange.
PackSections(interior_valid, sides) ==
  IF interior_valid
    THEN (IF "left" \in sides THEN <<"ext_left">> ELSE << >>) \o
         (IF "right" \in sides THEN <<"ext_right">> ELSE << >>) \o
         <<"xchg", "interior", "xchg">>
    ELSE <<"all", "xchg">>
\* The do_mpi_* flags run_solution() sets for a section.
SectionFlags(sec, before) ==
  IF sec = "ext_left" THEN [left |-> TRUE, right |-> FALSE, interior |-> FALSE]
  ELSE IF sec = "ext_right"
    THEN [left |-> FALSE, right |-> TRUE, interior |-> FALSE]
  ELSE IF sec = "interior"
    THEN [left |-> FALSE, right |-> FALSE, interior |-> TRUE]
  ELSE IF sec = "xchg" /\ ~before.interior
    THEN [left |-> TRUE, right |-> TRUE, interior |-> FALSE]
  ELSE before
\* calc_mini_block(): does this region thread call poke_halo_exchange()?
MayPoke_anythread(f, region_thread_idx) == is_overlap_active(f) /\ f.interior
MayPoke(f, region_thread_idx) ==
  is_overlap_active(f) /\ f.interior /\ region_thread_idx = 0
\* poke_halo_exchange() and exchange_halos() return at once on one rank.
TouchesRequests(nr) == nr >= 2
PokeSection(p) == p.secs[p.si]
PokeInit ==
  /\ EngineOff /\ BBOff /\ LifeOff
  /\ tb = << >> /\ vec = << >> /\ tx = << >> /\ wfr = << >>
  /\ mbk = << >> /\ scn = << >> /\ yf = << >> /\ vset = << >> /\ skw = << >>
  /\ \E nthr \in 1..MaxRegionThreads, nblocks \in 1..MaxPokeBlocks,
        nr \in 1..2, ovl \in BOOLEAN,
        sides \in {{"left"}, {"right"}, {"left", "right"}} :
       poke = [nthr |-> nthr, nblocks |-> nblocks, nr |-> nr,
               secs |-> PackSections(nr > 1 /\ ovl, sides),
               si |-> 1, flags |-> AllFlags, team |-> FALSE, taken |-> 0,
               at |-> [t \in 0..(nthr - 1) |-> "idle"],
               users |-> {}, in_xchg |-> FALSE]
\* run_solution() sets the flags of the section and the rank loops call
\* calc_region(), whose block loop forks the region threads.
PokeRegionBegin ==
  /\ poke.si <= Len(poke.secs) /\ PokeSection(poke) # "xchg" /\ ~poke.team
  /\ poke' = [poke EXCEPT
                !.flags = SectionFlags(PokeSection(poke), poke.flags),
                !.team = TRUE, !.taken = 0]
  /\ UNCHANGED pokeFrame
\* A region thread takes the next block: calc_block() calls calc_mini_block().
PokeTakeBlock(t) ==
  /\ poke.team /\ poke.at[t] = "idle" /\ poke.taken < poke.nblocks
  /\ poke' = [poke EXCEPT !.at[t] = "mini", !.taken = @ + 1]
  /\ UNCHANGED pokeFrame
\* calc_mini_block(): poke_halo_exchange() is called or not; when called on
\* more than one rank it starts testing the requests.
PokeEnter(t) ==
  /\ poke.at[t] = "mini"
  /\ poke' = IF MayPoke(poke.flags, t) /\ TouchesRequests(poke.nr)
               THEN [poke EXCEPT !.at[t] = "poke", !.users = @ \cup {t}]
               ELSE [poke EXCEPT !.at[t] = "calc"]
  /\ UNCHANGED pokeFrame
\* poke_halo_exchange() returns from the tests of the requests.
PokeTest(t) ==
  /\ poke.at[t] = "poke"
  /\ poke' = [poke EXCEPT !.at[t] = "calc", !.users = @ \ {t}]
  /\ UNCHANGED pokeFrame
\* calc_mini_block() and calc_block() return.
PokeBlockEnd(t) ==
  /\ poke.at[t] = "calc"
  /\ poke' = [poke EXCEPT !.at[t] = "idle"]
  /\ UNCHANGED pokeFrame
\* The end of the block loop: the team is joined and calc_region() returns.
PokeRegionEnd ==
  /\ poke.team /\ poke.taken = poke.nblocks
  /\ \A t \in DOMAIN poke.at : poke.at[t] = "idle"
  /\ poke' = [poke EXCEPT !.team = FALSE, !.si = @ + 1]
  /\ UNCHANGED pokeFrame
\* The driver calls exchange_halos(), which posts, tests and waits for the
\* requests of the var.
PokeExchangeBegin ==
  /\ poke.si <= Len(poke.secs) /\ PokeSection(poke) = "xchg"
  /\ ~poke.team /\ ~poke.in_xchg
  /\ poke' = [poke EXCEPT
                !.flags = SectionFlags("xchg", poke.flags),
                !.in_xchg = TRUE,
                !.users = IF TouchesRequests(poke.nr)
                            THEN @ \cup {DriverThread} ELSE @]
  /\ UNCHANGED pokeFrame
\* exchange_halos() returns; after the last one the flags are set back.
PokeExchangeEnd ==
  /\ poke.in_xchg
  /\ poke' = [poke EXCEPT
                !.in_xchg = FALSE, !.users = @ \ {DriverThread},
                !.si = @ + 1,
                !.flags = IF poke.si = Len(poke.secs) THEN AllFlags ELSE @]
  /\ UNCHANGED pokeFrame
PokeNext ==
  \/ PokeRegionBegin
  \/ \E t \in DOMAIN poke.at : PokeTakeBlock(t)
  \/ \E t \in DOMAIN poke.at : PokeEnter(t)
  \/ \E t \in DOMAIN poke.at : PokeTest(t)
  \/ \E t \in DOMAIN poke.at : PokeBlockEnd(t)
  \/ PokeRegionEnd
  \/ PokeExchangeBegin
  \/ PokeExchangeEnd
SpecPoke == PokeInit /\ [][PokeNext]_<<engineVars, otherVars>>

\* C31: the request handles of the var are used by the driver thread only
\* and by one thread at a time: inside exchange_halos() no region thread
\* runs, and while the interior is computed only region thread 0, which is
\* the driver, tests them.
C31_RequestsByDriverOnly ==
  /\ poke.users \subseteq {DriverThread}
  /\ poke.in_xchg => \A t \in DOMAIN poke.at : poke.at[t] = "idle"
  /\ \A t \in DOMAIN poke.at :
       poke.at[t] = "poke" => t = DriverThread /\ ~poke.in_xchg
C31_Witness ==
  /\ poke.nthr = 3 /\ poke.nr = 2 /\ poke.si <= Len(poke.secs)
  /\ PokeSection(poke) = "interior"
  /\ poke.users = {DriverThread}
  /\ poke.at[0] = "poke" /\ poke.at[1] = "calc" /\ poke.at[2] = "calc"

(***************************************************************************)
(* The scanner of a generated loop (gen_loops.pl) in one dim: the aligned  *)
(* beginning, the number of iterations and the tile of an iteration.       *)
(***************************************************************************)
ceil_idiv_flr(n, d) == (n + d - 1) \div d
imod_flr(n, m) == n % m
align_begin_anyalign(begin, step, align, align_ofs) ==
  round_down_flr(begin - align_ofs, align) + align_ofs
align_begin(begin, step, align, align_ofs) ==
  round_down_flr(begin - align_ofs, Min2(align, step)) + align_ofs
num_iters(begin, end, step, align, align_ofs) ==
  ceil_idiv_flr(end - align_begin(begin, step, align, align_ofs), step)
start_of(index, begin, step, align, align_ofs) ==
  Max2(align_begin(begin, step, align, align_ofs) + index * step, begin)
stop_of(index, begin, end, step, align, align_ofs) ==
  Min2(align_begin(begin, step, align, align_ofs) + (index + 1) * step, end)

(***************************************************************************)
(* StencilBundleBase::calc_mini_block() of one region thread, called for   *)
(* the bundle of each of two consecutive packs on the mini-block of that   *)
(* pack, in the binding dim.  For each bundle of get_reqd_bundles() a team *)
(* of block threads is started, runs the mini-block loop over sub-blocks   *)
(* and is joined.  mbk.ran is the set of calc_sub_block() calls made.      *)
(***************************************************************************)
MaxBlockThreads == 2
MaxScratch == 2
\* settings._sub_block_sizes and settings._mini_block_sizes in the dim.
SubBlockSizes == {1, 2, 3}
MiniBlockSize == 3
\* The beginning of the mini-block of the 1st pack and how far the one of
\* the 2nd pack is shifted to the left.
MBBegins == {0 - 1, 2}
MBShifts == {0, 1}
\* Left and right halos of the scratch var.
ScratchHalos == {<<0, 0>>, <<1, 0>>, <<1, 1>>}
idx_ofs == 4096
\* get_reqd_bundles(): the scratch children, then the bundle itself.  The
\* scratch children are the bundles 1..nscratch in the order they were
\* added and the bundle itself is nscratch + 1.
get_reqd_bundles_selffirst(nscratch) ==
  <<nscratch + 1>> \o [k \in 1..nscratch |-> k]
get_reqd_bundles(nscratch) ==
  [k \in 1..nscratch |-> k] \o <<nscratch + 1>>
IsScratch(m, sg) == sg <= m.nscratch
\* The bundle whose parallel region is next or running.
CurBundle(m) == get_reqd_bundles(m.nscratch)[m.sg]
bind_threads(m) == m.nbt > 1 /\ m.bind_block_threads
\* adjust_span(): the range of a scratch bundle is widened by the halos of
\* its var, rounded up to the fold.
adjust_span(m, sg, idxs) ==
  IF IsScratch(m, sg)
    THEN LET lh == ROUND_UP(m.halo[1], FoldPts)
             rh == ROUND_UP(m.halo[2], FoldPts)
             width == idxs.end - idxs.begin
         IN [begin |-> idxs.begin - lh, end |-> idxs.end + rh,
             stride |-> IF idxs.stride >= width
                          THEN (idxs.end + rh) - (idxs.begin - lh)
                          ELSE idxs.stride,
             align |-> idxs.align]
    ELSE idxs
\* The indices of the mini-block loop of bundle sg in pack pk.
AdjMbIdxs(m, pk, sg) ==
  LET a == adjust_span(m, sg, [begin |-> m.mb[pk].begin, end |-> m.mb[pk].end,
                               stride |-> m.sub_block_size, align |-> FoldPts])
  IN IF bind_threads(m)
       THEN [a EXCEPT !.stride = m.sub_block_size, !.align = m.sub_block_size]
     ELSE IF m.sub_block_size >= MiniBlockSize
       THEN [a EXCEPT !.stride = a.end - a.begin]
     ELSE a
MbIters(m, pk, sg) ==
  LET a == AdjMbIdxs(m, pk, sg)
  IN num_iters(a.begin, a.end, a.stride, a.align, 0)
SubBlock(m, pk, sg, index) ==
  LET a == AdjMbIdxs(m, pk, sg)
  IN [start |-> start_of(index, a.begin, a.stride, a.align, 0),
      stop |-> stop_of(index, a.begin, a.end, a.stride, a.align, 0)]
\* CALC_SUB_BLOCK with binding: the block thread of the slab of a sub-block.
bind_thr(start, bind_slab_pts, nbt) ==
  imod_flr(idiv_flr(start + idx_ofs, bind_slab_pts), nbt)
MBInit ==
  /\ EngineOff /\ BBOff /\ LifeOff
  /\ tb = << >> /\ vec = << >> /\ tx = << >> /\ wfr = << >>
  /\ poke = << >> /\ scn = << >> /\ yf = << >> /\ vset = << >> /\ skw = << >>
  /\ \E nbt \in 1..MaxBlockThreads, bind \in BOOLEAN, sbs \in SubBlockSizes,
        nscratch \in 0..MaxScratch, b1 \in MBBegins, sh \in MBShifts,
        halo \in ScratchHalos :
       mbk = [nbt |-> nbt, bind_block_threads |-> bind, sub_block_size |-> sbs,
              nscratch |-> nscratch, halo |-> halo,
              mb |-> <<[begin |-> b1, end |-> b1 + MiniBlockSize],
                       [begin |-> b1 - sh, end |-> b1 - sh + MiniBlockSize]>>,
              pk |-> 1, sg |-> 1, team |-> FALSE,
              index |-> [t \in 0..(nbt - 1) |-> 0], next |-> 0, ran |-> {}]
\* The parallel region of the next bundle of the list starts.
MBBundleBegin ==
  /\ mbk.pk <= 2 /\ ~mbk.team
  /\ mbk' = [mbk EXCEPT !.team = TRUE, !.next = 0,
                        !.index = [t \in DOMAIN mbk.index |-> 0]]
  /\ UNCHANGED mbkFrame
\* With binding every block thread runs the whole loop and calls
\* calc_sub_block() on the sub-blocks of its slabs only.
MBBoundIteration(t) ==
  /\ mbk.team /\ bind_threads(mbk)
  /\ mbk.index[t] < MbIters(mbk, mbk.pk, CurBundle(mbk))
  /\ LET sb == SubBlock(mbk, mbk.pk, CurBundle(mbk), mbk.index[t])
     IN mbk' = [mbk EXCEPT
                  !.index[t] = @ + 1,
                  !.ran = IF t = bind_thr(sb.start, mbk.sub_block_size, mbk.nbt)
                            THEN @ \cup {[pk |-> mbk.pk, sg |-> CurBundle(mbk),
                                          start |-> sb.start, stop |-> sb.stop,
                                          thr |-> t]}
                            ELSE @]
  /\ UNCHANGED mbkFrame
\* Without binding the iterations of the loop are shared out among the
\* block threads; a thread takes the next one and calls calc_sub_block().
MBSharedIteration(t) ==
  /\ mbk.team /\ ~bind_threads(mbk)
  /\ mbk.next < MbIters(mbk, mbk.pk, CurBundle(mbk))
  /\ LET sb == SubBlock(mbk, mbk.pk, CurBundle(mbk), mbk.next)
     IN mbk' = [mbk EXCEPT
                  !.next = @ + 1,
                  !.ran = @ \cup {[pk |-> mbk.pk, sg |-> CurBundle(mbk),
                                   start |-> sb.start, stop |-> sb.stop,
                                   thr |-> t]}]
  /\ UNCHANGED mbkFrame
\* The calls of a team that was joined: without binding the thread that
\* made a call is not kept.
AnyThread == 0 - 1
Joined(m, ran) ==
  IF bind_threads(m) THEN ran
  ELSE {[r EXCEPT !.thr = AnyThread] : r \in ran}
MBLoopDone(m, t) ==
  IF bind_threads(m) THEN m.index[t] = MbIters(m, m.pk, CurBundle(m))
  ELSE m.next = MbIters(m, m.pk, CurBundle(m))
\* The end of the parallel region: every block thread has left the loop.
\* After the last bundle of the list calc_mini_block() returns and is
\* called for the next pack.
MBBundleEnd ==
  /\ mbk.team /\ \A t \in DOMAIN mbk.index : MBLoopDone(mbk, t)
  /\ LET m == [mbk EXCEPT !.team = FALSE, !.ran = Joined(mbk, @)]
     IN mbk' = IF mbk.sg < Len(get_reqd_bundles(mbk.nscratch))
                 THEN [m EXCEPT !.sg = @ + 1]
                 ELSE [m EXCEPT !.sg = 1, !.pk = @ + 1]
  /\ UNCHANGED mbkFrame
MBNext ==
  \/ MBBundleBegin
  \/ \E t \in DOMAIN mbk.index : MBBoundIteration(t)
  \/ \E t \in DOMAIN mbk.index : MBSharedIteration(t)
  \/ MBBundleEnd
SpecMB == MBInit /\ [][MBNext]_<<engineVars, otherVars>>

\* The bundles of the packs whose team has been joined.
JoinedBundles ==
  {b \in (1..2) \X (1..(mbk.nscratch + 1)) :
     \/ b[1] < mbk.pk
     \/ /\ b[1] = mbk.pk
        /\ \E k \in 1..(mbk.sg - 1) : get_reqd_bundles(mbk.nscratch)[k] = b[2]}
CallsOn(pk, sg, index) ==
  {r \in mbk.ran :
     /\ r.pk = pk /\ r.sg = sg
     /\ r.start = SubBlock(mbk, pk, sg, index).start
     /\ r.stop = SubBlock(mbk, pk, sg, index).stop}
\* The slab of the binding dim a point lies in.
SlabOf(x) == idiv_flr(x, mbk.sub_block_size)
\* With binding every sub-block of a joined bundle was run by one block
\* thread, the one given by the slab index of its biased start.
C32_OneThreadPerSubBlock ==
  bind_threads(mbk) =>
    /\ \A r \in mbk.ran :
         r.thr = imod_flr(idiv_flr(r.start + idx_ofs, mbk.sub_block_size),
                          mbk.nbt)
    /\ \A b \in JoinedBundles :
         \A index \in 0..(MbIters(mbk, b[1], b[2]) - 1) :
           Cardinality(CallsOn(b[1], b[2], index)) = 1
\* With binding the sub-blocks of one slab are run by one block thread in
\* both packs.
C32_SameSlabSameThread ==
  bind_threads(mbk) =>
    \A r1 \in mbk.ran, r2 \in mbk.ran :
      (r1.pk # r2.pk /\ SlabOf(r1.start) = SlabOf(r2.start)) => r1.thr = r2.thr
\* C32: with bind_block_threads set and more than one block thread, each
\* sub-block at position p in the binding dim is run by exactly one block
\* thread, thread floor((p + bias) / slab) mod num_block_threads, and so a
\* slab is run by the same block thread in consecutive packs.
C32_BoundThreadPerSlab ==
  C32_OneThreadPerSubBlock /\ C32_SameSlabSameThread
\* The slab width divides the bias.
C32_SlabDividesBias ==
  (bind_threads(mbk) /\ idx_ofs % mbk.sub_block_size = 0) =>
    C32_SameSlabSameThread

\* The calls made for a bundle in a pack cover its whole adjusted range.
Complete(pk, sg) ==
  \A x \in AdjMbIdxs(mbk, pk, sg).begin..(AdjMbIdxs(mbk, pk, sg).end - 1) :
    \E r \in mbk.ran : r.pk = pk /\ r.sg = sg /\ r.start <= x /\ x < r.stop
\* C33: within a mini-block every scratch bundle the bundle needs has been
\* evaluated over its whole range, and its block threads joined, before a
\* sub-block of the bundle is run; the bundles of the list run one after
\* the other, each completed before the next starts.
C33_ScratchBeforeConsumer ==
  /\ \A r \in mbk.ran :
       r.sg = mbk.nscratch + 1 =>
         \A c \in 1..mbk.nscratch : Complete(r.pk, c) /\ <<r.pk, c>> \in JoinedBundles
  /\ \A r \in mbk.ran :
       \/ <<r.pk, r.sg>> \in JoinedBundles
       \/ mbk.team /\ r.pk = mbk.pk /\ r.sg = CurBundle(mbk)
  /\ \A b \in JoinedBundles : Complete(b[1], b[2])
C33_Witness ==
  /\ mbk.nscratch = 2 /\ mbk.nbt = 2 /\ mbk.halo = <<1, 1>>
  /\ mbk.pk = 1 /\ mbk.sg = 3 /\ mbk.team
  /\ \E r \in mbk.ran : r.sg = 3
  /\ \E r \in mbk.ran : r.sg = 1 /\ r.start = mbk.mb[1].begin - 1
  /\ \E r \in mbk.ran : r.sg = 2 /\ r.stop = mbk.mb[1].end + 1

(***************************************************************************)
(* One scan of a loop generated by gen_loops.pl.  A scan of kind "tiles"   *)
(* is a loop over one dim and records the [start, stop) of each iteration; *)
(* a scan of kind "path" is a loop collapsed over several dims and records *)
(* the zero-based indices of each iteration.  scn.index is the loop index. *)
(***************************************************************************)
MaxScanIters == 3
MaxScanLen == 4
MaxGroupSize == 3
ScanBegins == (0 - 3)..2
ScanSteps == 1..3
ScanAligns == 1..3
ScanAlignOfs == (0 - 1)..1
\* The product of the numbers of iterations of the dims after dim i.
RECURSIVE NumItersAfter(_, _)
NumItersAfter(n, i) ==
  IF i >= Len(n) THEN 1 ELSE n[i + 1] * NumItersAfter(n, i + 1)
\* The index of dim i taken from the collapsed index c by divide and mod.
DecodedIndex(c, n, i) ==
  LET q == IF i < Len(n) THEN c \div NumItersAfter(n, i) ELSE c
  IN IF i > 1 THEN q % n[i] ELSE q
\* Square-wave: the index of the inner dim and the one of the dim before it
\* over two iterations of the dim before it.
square_wave_always(index, nvar, prev, prev_nvar) ==
  LET index_x2 == index + nvar * (prev % 2)
      lsb == ((index_x2 % 2) + ((index_x2 \div 2) % 2)) % 2
  IN [index |-> index_x2 \div 2, prev |-> (prev \div 2) * 2 + lsb]
square_wave(index, nvar, prev, prev_nvar) ==
  IF nvar > 1 /\ (prev \div 2) < (prev_nvar \div 2)
    THEN LET index_x2 == index + nvar * (prev % 2)
             lsb == ((index_x2 % 2) + ((index_x2 \div 2) % 2)) % 2
         IN [index |-> index_x2 \div 2, prev |-> (prev \div 2) * 2 + lsb]
    ELSE [index |-> index, prev |-> prev]
\* Serpentine: the index is reversed on every other pass of the dim before.
serpentine(index, nvar, prev, inner_square) ==
  IF (inner_square /\ (prev \div 2) % 2 = 1) \/ (~inner_square /\ prev % 2 = 1)
    THEN nvar - index - 1 ELSE index
\* addIndexVars2() without grouping: the indices of the dims from dim i on;
\* enc is the index of the enclosing dim, or -1 without one.
RECURSIVE PathIndices(_, _, _, _, _, _)
PathIndices(c, n, feat, enc, i, idx) ==
  IF i > Len(n) THEN idx
  ELSE
    LET inner_square == Len(n) >= 2 /\ i = Len(n) /\ feat.square
        prev0 == IF i = 1 THEN enc ELSE idx[i - 1]
        sq == IF inner_square
                THEN square_wave(DecodedIndex(c, n, i), n[i], prev0, n[i - 1])
                ELSE [index |-> DecodedIndex(c, n, i), prev |-> prev0]
        d == IF feat.serp /\ prev0 >= 0
               THEN serpentine(sq.index, n[i], sq.prev, inner_square)
               ELSE sq.index
        idx1 == IF i > 1 THEN [idx EXCEPT ![i - 1] = sq.prev] ELSE idx
    IN PathIndices(c, n, feat, enc, i + 1, Append(idx1, d))
\* addIndexVars1() with grouping: iterations in one full group of a dim and
\* the number of full groups.
num_full_group_iters(group_size, step, nvar) ==
  Min2(ceil_idiv_flr(group_size, step), nvar)
num_groups(nti, nvar) == IF nti # 0 THEN nvar \div nti ELSE 0
RECURSIVE ProdFrom(_, _, _)
ProdFrom(t, a, b) == IF a > b THEN 1 ELSE t[a] * ProdFrom(t, a + 1, b)
\* addIndexVars2() with grouping, 1st loop: the index of the group in each
\* dim, the iterations of the group in each dim and the offset in the group.
RECURSIVE GroupOf(_, _, _, _, _, _, _)
GroupOf(n, nti, i, prev_o, lt, ti, o) ==
  IF i > Len(n) THEN [lt |-> lt, ti |-> ti, o |-> o]
  ELSE
    LET tg == ProdFrom(lt, 1, i) * ProdFrom(n, i + 1, Len(n))
        tiv == IF tg # 0 THEN prev_o \div tg ELSE 0
        ov == prev_o % tg
        lt1 == IF tiv >= num_groups(nti[i], n[i])
                 THEN [lt EXCEPT ![i] = n[i] - num_groups(nti[i], n[i]) * nti[i]]
                 ELSE lt
    IN GroupOf(n, nti, i + 1, ov, lt1, Append(ti, tiv), ov)
\* 2nd loop: the offset in the group and the index in each dim.
GroupedIndices(c, n, nti) ==
  LET g == GroupOf(n, nti, 1, c, nti, << >>, c)
  IN [i \in 1..Len(n) |->
        LET q == IF i < Len(n) THEN g.o \div ProdFrom(g.lt, i + 1, Len(n))
                 ELSE g.o
            dov == IF i > 1 THEN q % g.lt[i] ELSE q
        IN nti[i] * g.ti[i] + dov]
\* The indices of iteration c of a scan.
IndicesOf(sc, c) ==
  IF sc.feat.grouped
    THEN GroupedIndices(c, sc.n,
           [i \in 1..Len(sc.n) |->
              num_full_group_iters(sc.group_size[i], sc.step, sc.n[i])])
    ELSE PathIndices(c, sc.n, sc.feat, sc.enc, 1, << >>)
ScanFeatures ==
  {f \in [square : BOOLEAN, serp : BOOLEAN, grouped : BOOLEAN] :
     f.grouped => ~f.square /\ ~f.serp}
ScanInit ==
  /\ EngineOff /\ BBOff /\ LifeOff
  /\ tb = << >> /\ vec = << >> /\ tx = << >> /\ wfr = << >>
  /\ poke = << >> /\ mbk = << >> /\ yf = << >> /\ vset = << >> /\ skw = << >>
  /\ \/ \E begin \in ScanBegins, len \in 1..MaxScanLen, step \in ScanSteps,
           align \in ScanAligns, align_ofs \in ScanAlignOfs :
          scn = [kind |-> "tiles", begin |-> begin, end |-> begin + len,
                 step |-> step, align |-> align, align_ofs |-> align_ofs,
                 index |-> 0, out |-> << >>]
     \/ \E nd \in 1..3, feat \in ScanFeatures, enc \in (0 - 1)..1,
           step \in 1..2 :
          \E n \in [1..nd -> 1..MaxScanIters],
             gs \in [1..nd -> 1..MaxGroupSize] :
            /\ ~feat.grouped => step = 1 /\ gs = [i \in 1..nd |-> 1]
            /\ feat.grouped => enc = 0 - 1
            /\ scn = [kind |-> "path", n |-> n, feat |-> feat, enc |-> enc,
                      group_size |-> gs, step |-> step,
                      index |-> 0, out |-> << >>]
ScanNumIters(sc) ==
  IF sc.kind = "tiles"
    THEN num_iters(sc.begin, sc.end, sc.step, sc.align, sc.align_ofs)
    ELSE ProdFrom(sc.n, 1, Len(sc.n))
\* An iteration of a loop over one dim: its start and stop.
ScanTile ==
  /\ scn.kind = "tiles" /\ scn.index < ScanNumIters(scn)
  /\ scn' = [scn EXCEPT
               !.index = @ + 1,
               !.out = Append(@,
                  [start |-> start_of(scn.index, scn.begin, scn.step,
                                      scn.align, scn.align_ofs),
                   stop |-> stop_of(scn.index, scn.begin, scn.end, scn.step,
                                    scn.align, scn.align_ofs)])]
  /\ UNCHANGED scnFrame
\* An iteration of a collapsed loop: the index of each dim.
ScanPoint ==
  /\ scn.kind = "path" /\ scn.index < ScanNumIters(scn)
  /\ scn' = [scn EXCEPT !.index = @ + 1,
                        !.out = Append(@, IndicesOf(scn, scn.index))]
  /\ UNCHANGED scnFrame
ScanNext == ScanTile \/ ScanPoint
SpecScan == ScanInit /\ [][ScanNext]_<<engineVars, otherVars>>

ScanDone == scn.index = ScanNumIters(scn)
\* C34: the tiles of a loop over [begin, end) with step > 0 and any
\* alignment are non-empty, disjoint and cover exactly [begin, end): each
\* tile is non-empty, the 1st starts at begin, each next one starts where
\* the one before stops, and the last stops at end.
C34_TilesPartitionRange ==
  scn.kind = "tiles" =>
    /\ \A k \in 1..Len(scn.out) :
         /\ scn.out[k].start < scn.out[k].stop
         /\ scn.out[k].start =
              (IF k = 1 THEN scn.begin ELSE scn.out[k - 1].stop)
    /\ ScanDone => /\ Len(scn.out) >= 1
                   /\ scn.out[Len(scn.out)].stop = scn.end
C34_Witness ==
  /\ scn.kind = "tiles" /\ ScanDone
  /\ scn.begin = 0 - 2 /\ scn.end = 2
  /\ scn.step = 2 /\ scn.align = 2 /\ scn.align_ofs = 1
  /\ scn.out = <<[start |-> 0 - 2, stop |-> 0 - 1],
                 [start |-> 0 - 1, stop |-> 1], [start |-> 1, stop |-> 2]>>

\* C35: the square-wave, serpentine and grouped paths visit each tuple of
\* indices of the collapsed loop exactly once, every index within
\* [0, num_iters) of its dim.
C35_PathIsPermutation ==
  scn.kind = "path" =>
    /\ \A k \in 1..Len(scn.out) :
         /\ Len(scn.out[k]) = Len(scn.n)
         /\ \A i \in 1..Len(scn.n) :
              scn.out[k][i] >= 0 /\ scn.out[k][i] < scn.n[i]
    /\ \A k1 \in 1..Len(scn.out), k2 \in 1..Len(scn.out) :
         k1 # k2 => scn.out[k1] # scn.out[k2]
    /\ ScanDone => Len(scn.out) = ProdFrom(scn.n, 1, Len(scn.n))
C35_Witness ==
  /\ scn.kind = "path" /\ ScanDone
  /\ scn.feat = [square |-> TRUE, serp |-> TRUE, grouped |-> FALSE]
  /\ scn.n = <<3, 2>> /\ scn.enc = 0 - 1
  /\ scn.out = <<<<0, 0>>, <<1, 0>>, <<1, 1>>, <<0, 1>>, <<2, 1>>, <<2, 0>>>>

\* C36: a run_solution() call that throws because the solution is not
\* prepared has invoked no hook, has not left the run timer running and has
\* changed no step count, flag or var.
C36_RejectedRunNoEffect ==
  lastCall.op = "run_solution" =>
    \A me \in lastCall.threw :
      /\ lastCall.hooks[me] = << >>
      /\ me \notin lastCall.run_time_running
\* The part of C36 that holds: the call changes no option and no state of
\* the context.
C36_RejectedRunKeepsState ==
  [][(lastCall'.op = "run_solution" /\ lastCall'.threw # {}) =>
       (opts' = opts /\ kctx' = kctx /\ prepare_called' = prepare_called)
    ]_<<engineVars, otherVars>>
\* What a rejected call does: the before-hooks have run and the run timer is
\* running on every rank that threw.
C36_RejectedRunEffects ==
  lastCall.op = "run_solution" =>
    \A me \in lastCall.threw :
      /\ lastCall.hooks[me] = <<"before">>
      /\ me \in lastCall.run_time_running
C36_Witness ==
  /\ lastCall.op = "run_solution" /\ lastCall.threw # {}
  /\ \A me \in lastCall.threw : ~is_prepared(kctx[me])

(***************************************************************************)
(* update_grid_info() and update_tb_info(): the skewing angles, the number *)
(* of shifts and the trapezoid of a block, in two domain dims.  skw.o are  *)
(* the settings and skw.out what the context holds.                        *)
(***************************************************************************)
MaxSkewHalo == 2
MaxBlkFolds == 6
MaxRegionSteps == 1
MaxBlockSteps == 3
SkewRankPts == 8
SkewDims == 1..2
\* Settings of one dim: fold, largest halo, sizes of region, rank and block
\* and number of ranks.
SkewDimSettings ==
  {d \in [fold : {1, 2}, max_halo : 0..MaxSkewHalo, region_size : {SkewRankPts \div 2, SkewRankPts},
          rank_size : {SkewRankPts}, num_ranks : {1, 2},
          block_size : 1..(2 * MaxBlkFolds)] :
     /\ d.block_size % d.fold = 0
     /\ d.block_size <= d.fold * MaxBlkFolds
     /\ d.block_size <= d.region_size
     /\ d.num_ranks > 1 => d.region_size = d.rank_size}
\* update_grid_info(): steps and shifts of a wave-front.
grid_wf_steps(o) == Max2(o.region_steps, o.block_steps)
grid_num_wf_shifts(o) ==
  IF grid_wf_steps(o) > 0
    THEN (IF o.npacks * grid_wf_steps(o) > 0
            THEN o.npacks * grid_wf_steps(o) - 1 ELSE 0)
    ELSE 0
\* Req'd shift in dim j based on max halos.
skew_angle(o, j) == ROUND_UP(o.dims[j].max_halo, o.dims[j].fold)
wf_angles_always(o, j) == skew_angle(o, j)
wf_angles(o, j) ==
  IF o.dims[j].region_size < o.dims[j].rank_size \/ o.dims[j].num_ranks > 1
    THEN skew_angle(o, j) ELSE 0
grid_throws(o) ==
  \E j \in SkewDims :
    /\ o.dims[j].num_ranks > 1
    /\ o.dims[j].rank_size <
         o.dims[j].max_halo + wf_angles(o, j) * grid_num_wf_shifts(o)
\* update_tb_info(): angle of a temporal block and steps allowed by a dim.
tb_angles(o, j) ==
  IF o.dims[j].block_size < o.dims[j].region_size
    THEN skew_angle(o, j) ELSE 0
tb_nsteps(o, j) ==
  (o.dims[j].block_size - o.dims[j].fold + tb_angles(o, j) * 2)
    \div (tb_angles(o, j) * 2 * o.npacks)
RECURSIVE tb_max_steps(_, _, _)
tb_max_steps(o, j, max_steps) ==
  IF j > 2 THEN max_steps
  ELSE tb_max_steps(o, j + 1,
         IF tb_angles(o, j) > 0 THEN Min2(max_steps, tb_nsteps(o, j))
         ELSE max_steps)
tb_steps(o) ==
  IF o.block_steps > 0
    THEN Min2(o.block_steps,
              tb_max_steps(o, 1, Min2(o.block_steps, grid_wf_steps(o))))
    ELSE o.block_steps
num_tb_shifts(o) ==
  IF tb_steps(o) > 0
    THEN (IF o.npacks * tb_steps(o) > 0 THEN o.npacks * tb_steps(o) - 1
          ELSE 0)
    ELSE 0
\* Base and top of the trapezoid of a block in dim j.
tb_trapezoid_noshift(o, j) ==
  LET sa == num_tb_shifts(o) * tb_angles(o, j)
      blk_width == ROUND_UP(CEIL_DIV(o.dims[j].block_size, 2), o.dims[j].fold)
  IN IF num_tb_shifts(o) > 0 /\ tb_angles(o, j) > 0
       THEN [width |-> blk_width, top |-> Max2(blk_width - 2 * sa, 0)]
       ELSE [width |-> o.dims[j].block_size, top |-> o.dims[j].block_size]
tb_trapezoid(o, j) ==
  LET blk_sz == o.dims[j].block_size
      fpts == o.dims[j].fold
      sa == num_tb_shifts(o) * tb_angles(o, j)
      min_blk_width == fpts + 2 * sa
      blk_width == Max2(ROUND_UP(CEIL_DIV(blk_sz, 2) + sa, fpts), min_blk_width)
  IN IF num_tb_shifts(o) > 0 /\ tb_angles(o, j) > 0
       THEN [width |-> blk_width, top |-> Max2(blk_width - 2 * sa, 0)]
       ELSE [width |-> blk_sz, top |-> blk_sz]
update_tb_info(o) ==
  [tb_steps |-> tb_steps(o), num_tb_shifts |-> num_tb_shifts(o),
   tb_angles |-> [j \in SkewDims |-> tb_angles(o, j)],
   tb_widths |-> [j \in SkewDims |-> tb_trapezoid(o, j).width],
   tb_tops |-> [j \in SkewDims |-> tb_trapezoid(o, j).top]]
NoTbInfo ==
  [tb_steps |-> 0, num_tb_shifts |-> 0, tb_angles |-> <<0, 0>>,
   tb_widths |-> <<0, 0>>, tb_tops |-> <<0, 0>>]
SkewInit ==
  /\ EngineOff /\ BBOff /\ LifeOff
  /\ tb = << >> /\ vec = << >> /\ tx = << >> /\ wfr = << >>
  /\ poke = << >> /\ mbk = << >> /\ scn = << >> /\ yf = << >> /\ vset = << >>
  /\ \E d1 \in SkewDimSettings, d2 \in SkewDimSettings,
        rsteps \in 0..MaxRegionSteps, bsteps \in 0..MaxBlockSteps,
        np \in 1..2 :
       skw = [pc |-> "set",
              o |-> [dims |-> <<d1, d2>>, region_steps |-> rsteps,
                     block_steps |-> bsteps, npacks |-> np],
              out |-> << >>]
\* StencilContext::update_grid_info(), with the call of update_tb_info() at
\* its end, which a throw does not reach.
UpdateGridInfo ==
  /\ skw.pc = "set"
  /\ skw' = [skw EXCEPT
       !.pc = IF grid_throws(skw.o) THEN "threw" ELSE "updated",
       !.out = [wf_steps |-> grid_wf_steps(skw.o),
                num_wf_shifts |-> grid_num_wf_shifts(skw.o),
                wf_angles |-> [j \in SkewDims |-> wf_angles(skw.o, j)],
                tb |-> IF grid_throws(skw.o) THEN NoTbInfo
                       ELSE update_tb_info(skw.o)]]
  /\ UNCHANGED skwFrame
SkewNext == UpdateGridInfo
SpecSkew == SkewInit /\ [][SkewNext]_<<engineVars, otherVars>>

\* A dim with a trapezoid: there are shifts and the block is skewed in it.
HasTrapezoid(j) ==
  /\ skw.pc = "updated"
  /\ skw.out.tb.num_tb_shifts > 0 /\ skw.out.tb.tb_angles[j] > 0
\* C37 as stated: with temporal blocking the base of the trapezoid is
\* round_up(block_size/2 + num_tb_shifts*tb_angle, fold) and its top is
\* block_size - 2*num_tb_shifts*tb_angle.
C37_TrapezoidOfBlockSize ==
  \A j \in SkewDims :
    HasTrapezoid(j) =>
      /\ skw.out.tb.tb_widths[j] =
           ROUND_UP(CEIL_DIV(skw.o.dims[j].block_size, 2)
                      + skw.out.tb.num_tb_shifts * skw.out.tb.tb_angles[j],
                    skw.o.dims[j].fold)
      /\ skw.out.tb.tb_tops[j] =
           skw.o.dims[j].block_size
             - 2 * skw.out.tb.num_tb_shifts * skw.out.tb.tb_angles[j]
\* C37 as the code has it: the base is as stated, with the half of the block
\* size rounded up, and the top is the base, not the block size, less
\* 2*num_tb_shifts*tb_angle; the top is at least one fold.
C37_TrapezoidOfBase ==
  \A j \in SkewDims :
    HasTrapezoid(j) =>
      /\ skw.out.tb.tb_widths[j] =
           ROUND_UP(CEIL_DIV(skw.o.dims[j].block_size, 2)
                      + skw.out.tb.num_tb_shifts * skw.out.tb.tb_angles[j],
                    skw.o.dims[j].fold)
      /\ skw.out.tb.tb_tops[j] =
           skw.out.tb.tb_widths[j]
             - 2 * skw.out.tb.num_tb_shifts * skw.out.tb.tb_angles[j]
      /\ skw.out.tb.tb_tops[j] >= skw.o.dims[j].fold
C37_Witness ==
  /\ HasTrapezoid(1) /\ ~HasTrapezoid(2)
  /\ skw.o.dims[1].block_size = 6 /\ skw.o.dims[1].fold = 1
  /\ skw.out.tb.num_tb_shifts = 2 /\ skw.out.tb.tb_angles[1] = 1
  /\ skw.out.tb.tb_widths = <<5, skw.o.dims[2].block_size>>
  /\ skw.out.tb.tb_tops = <<1, skw.o.dims[2].block_size>>

\* C38 as stated: the wave-front angle is round_up(max_halo, fold) in every
\* domain dim.
C38_AngleInEveryDim ==
  skw.pc # "set" =>
    \A j \in SkewDims :
      skw.out.wf_angles[j] =
        ROUND_UP(skw.o.dims[j].max_halo, skw.o.dims[j].fold)
\* C38 as the code has it: the angle is round_up(max_halo, fold) in a dim
\* where the region is smaller than the rank's domain or that has more than
\* one rank, and 0 in a dim where the region covers the global domain.
C38_AngleWhereRegionsShift ==
  skw.pc # "set" =>
    \A j \in SkewDims :
      skw.out.wf_angles[j] =
        (IF skw.o.dims[j].region_size < skw.o.dims[j].rank_size
            \/ skw.o.dims[j].num_ranks > 1
           THEN ROUND_UP(skw.o.dims[j].max_halo, skw.o.dims[j].fold)
           ELSE 0)
C38_Witness ==
  /\ skw.pc = "updated"
  /\ skw.o.dims[1].max_halo = 1 /\ skw.o.dims[1].fold = 2
  /\ skw.o.dims[1].region_size = 4
  /\ skw.o.dims[2].max_halo = 1 /\ skw.o.dims[2].fold = 2
  /\ skw.o.dims[2].region_size = 8 /\ skw.o.dims[2].num_ranks = 1
  /\ skw.out.wf_angles = <<2, 0>>

(***************************************************************************)
(* yask_for(begin, end, stride, visitor).  yf.in holds the arguments, the  *)
(* build (with or without OpenMP), omp_get_max_active_levels() and         *)
(* yask_num_threads; yf.done the iterations <<n, i>> that have run, n the  *)
(* outer thread (0 when not nested); yf.visits the number of calls of the  *)
(* visitor for each (start, stop).  The iterations of a parallel loop run  *)
(* in any order.                                                           *)
(***************************************************************************)
MaxYfBegin == 2
MaxYfLen == 3
MaxYfStride == 2
MaxYfThreads == 2
YfInputs ==
  {i \in [begin : (0 - 1)..MaxYfBegin, end : (0 - 2)..(MaxYfBegin + MaxYfLen),
          stride : 1..MaxYfStride, openmp : BOOLEAN, max_active_levels : 1..2,
          yask_num_threads : (0..MaxYfThreads) \X (0..MaxYfThreads)] :
     /\ i.end >= i.begin - 1 /\ i.end <= i.begin + MaxYfLen
     /\ ~i.openmp => i.max_active_levels = 1 /\ i.yask_num_threads = <<0, 0>>}
YfNested(i) ==
  ~(i.max_active_levels < 2 \/ i.yask_num_threads[1] = 0
    \/ i.yask_num_threads[2] = 0)
\* The values of i of `for (i = first; i < last; i += stride)`.
LoopValues(first, last, stride) ==
  {i \in first..(last - 1) : (i - first) % stride = 0}
\* Canonical and non-nested loops.
FlatLoop(i) == LoopValues(0, i.end, i.stride)
\* Nested loops: the range of outer thread n.
yf_niter(i) == CEIL_DIV(i.end - i.begin, i.stride)
niters_per_thr(i) == CEIL_DIV(yf_niter(i), i.yask_num_threads[1])
tbegin(i, n) == n * niters_per_thr(i) * i.stride
tend(i, n) == Min2(i.end, tbegin(i, n) + niters_per_thr(i) * i.stride)
\* The iterations <<n, i>> of a call.
YfIterations(i) ==
  IF i.openmp /\ YfNested(i)
    THEN {<<n, k>> \in (0..(i.yask_num_threads[1] - 1)) \X (0..(i.end - 1)) :
            k \in LoopValues(tbegin(i, n), tend(i, n), i.stride)}
    ELSE {<<0, k>> : k \in FlatLoop(i)}
\* The call of the visitor in iteration i.
YfVisit(y, k) ==
  LET call == <<k, Min2(k + y.in.stride, y.in.end)>>
  IN [y EXCEPT !.visits = [c \in DOMAIN @ \cup {call} |->
                             IF c = call
                               THEN (IF c \in DOMAIN @ THEN @[c] + 1 ELSE 1)
                               ELSE @[c]]]
YfInit ==
  /\ EngineOff /\ BBOff /\ LifeOff
  /\ tb = << >> /\ vec = << >> /\ tx = << >> /\ wfr = << >>
  /\ poke = << >> /\ mbk = << >> /\ scn = << >> /\ vset = << >> /\ skw = << >>
  /\ \E i \in YfInputs :
       yf = [in |-> i, pc |-> "call", done |-> {}, visits |-> << >>]
\* Entry: nothing to do when end <= begin.
YfCall ==
  /\ yf.pc = "call"
  /\ yf' = [yf EXCEPT !.pc = IF yf.in.end <= yf.in.begin THEN "returned"
                             ELSE "loop"]
  /\ UNCHANGED yfFrame
\* Canonical loop of a build without OpenMP: the next iteration in order.
YfCanonicalIteration ==
  /\ yf.pc = "loop" /\ ~yf.in.openmp
  /\ \E it \in YfIterations(yf.in) \ yf.done :
       /\ \A o \in YfIterations(yf.in) \ yf.done : it[2] <= o[2]
       /\ yf' = [YfVisit(yf, it[2]) EXCEPT !.done = @ \cup {it}]
  /\ UNCHANGED yfFrame
\* An iteration of the non-nested parallel loop.
YfParallelIteration ==
  /\ yf.pc = "loop" /\ yf.in.openmp /\ ~YfNested(yf.in)
  /\ \E it \in YfIterations(yf.in) \ yf.done :
       yf' = [YfVisit(yf, it[2]) EXCEPT !.done = @ \cup {it}]
  /\ UNCHANGED yfFrame
\* An iteration of the inner parallel loop of an outer thread.
YfNestedIteration ==
  /\ yf.pc = "loop" /\ yf.in.openmp /\ YfNested(yf.in)
  /\ \E it \in YfIterations(yf.in) \ yf.done :
       yf' = [YfVisit(yf, it[2]) EXCEPT !.done = @ \cup {it}]
  /\ UNCHANGED yfFrame
\* End of the loops.
YfReturn ==
  /\ yf.pc = "loop" /\ yf.done = YfIterations(yf.in)
  /\ yf' = [yf EXCEPT !.pc = "returned"]
  /\ UNCHANGED yfFrame
YfNext ==
  \/ YfCall
  \/ YfCanonicalIteration
  \/ YfParallelIteration
  \/ YfNestedIteration
  \/ YfReturn
SpecYf == YfInit /\ [][YfNext]_<<engineVars, otherVars>>

\* The calls that yask_for(begin, end, stride, visitor) is to make.
ExpectedVisits(i) ==
  {<<k, Min2(k + i.stride, i.end)>> : k \in LoopValues(i.begin, i.end, i.stride)}
\* C39: when yask_for() has returned the visitor has been called exactly
\* once for each start begin, begin+stride, ... below end, with
\* stop = min(start + stride, end), and at no time with a start below
\* begin, in every variant.
C39_VisitsFromBegin ==
  /\ \A c \in DOMAIN yf.visits : c[1] >= yf.in.begin
  /\ yf.pc = "returned" =>
       /\ DOMAIN yf.visits = ExpectedVisits(yf.in)
       /\ \A c \in DOMAIN yf.visits : yf.visits[c] = 1
\* The part of C39 that holds: with begin = 0 the calls are the expected
\* ones, once each, in every variant.
C39_VisitsFromZero ==
  yf.in.begin = 0 =>
    /\ \A c \in DOMAIN yf.visits : c[1] >= 0 /\ yf.visits[c] = 1
    /\ yf.pc = "returned" => DOMAIN yf.visits = ExpectedVisits(yf.in)
\* What the code does with any begin: the non-nested loops start at 0.
C39_FlatVisitsFromZero ==
  (yf.pc = "returned" /\ ~(yf.in.openmp /\ YfNested(yf.in))
     /\ yf.in.end > yf.in.begin) =>
    DOMAIN yf.visits =
      {<<k, Min2(k + yf.in.stride, yf.in.end)>> :
         k \in LoopValues(0, yf.in.end, yf.in.stride)}
C39_Witness ==
  /\ yf.pc = "returned" /\ yf.in.begin = 2 /\ yf.in.end = 4
  /\ yf.in.stride = 1 /\ yf.in.openmp /\ YfNested(yf.in)
  /\ yf.in.yask_num_threads = <<2, 2>>
  /\ DOMAIN yf.visits = {<<0, 1>>, <<1, 2>>}

(***************************************************************************)
(* vector_set<T>: vset.vec is the std::vector base and vset.posn the map   *)
(* _posn, positions counted from 0.  An erase() at or after the end of the *)
(* vector is undefined: it ends the program, leaves the vector alone or    *)
(* drops its last element.                                                 *)
(***************************************************************************)
MaxVsValues == 3
VsValues == 1..MaxVsValues
count(s, val) == IF val \in DOMAIN s.posn THEN 1 ELSE 0
RemoveAt(v, op) ==
  [k \in 1..(Len(v) - 1) |-> IF k <= op THEN v[k] ELSE v[k + 1]]
\* insert(val)
insert(s, val) ==
  IF count(s, val) = 0
    THEN [s EXCEPT !.vec = Append(@, val),
                   !.posn = [w \in DOMAIN @ \cup {val} |->
                               IF w = val THEN Len(s.vec) ELSE @[w]]]
    ELSE s
\* erase(val) where the position is inside the vector: the loop over _posn
\* changes copies of its entries (`for (auto pi : _posn)`), and the entry of
\* val stays.
erase(s, val) ==
  [s EXCEPT !.vec = RemoveAt(@, s.posn[val])]
VsInit ==
  /\ EngineOff /\ BBOff /\ LifeOff
  /\ tb = << >> /\ vec = << >> /\ tx = << >> /\ wfr = << >>
  /\ poke = << >> /\ mbk = << >> /\ scn = << >> /\ yf = << >> /\ skw = << >>
  /\ vset = [vec |-> << >>, posn |-> << >>, pc |-> "ok", last |-> <<"new", 0>>]
VsInsert ==
  /\ vset.pc = "ok"
  /\ \E val \in VsValues :
       vset' = [insert(vset, val) EXCEPT !.last = <<"insert", val>>]
  /\ UNCHANGED vsetFrame
VsPushBack ==
  /\ vset.pc = "ok"
  /\ \E val \in VsValues :
       vset' = [insert(vset, val) EXCEPT !.last = <<"push_back", val>>]
  /\ UNCHANGED vsetFrame
VsErase ==
  /\ vset.pc = "ok"
  /\ \E val \in VsValues :
       IF count(vset, val) = 0
         THEN vset' = [vset EXCEPT !.last = <<"erase", val>>]
       ELSE IF vset.posn[val] < Len(vset.vec)
         THEN vset' = [erase(vset, val) EXCEPT !.last = <<"erase", val>>]
       ELSE \/ vset' = [vset EXCEPT !.pc = "crashed", !.last = <<"erase", val>>]
            \/ vset' = [vset EXCEPT !.last = <<"erase", val>>]
            \/ /\ vset.vec # << >>
               /\ vset' = [vset EXCEPT !.vec = SubSeq(@, 1, Len(@) - 1),
                                       !.last = <<"erase", val>>]
  /\ UNCHANGED vsetFrame
VsClear ==
  /\ vset.pc = "ok"
  /\ vset' = [vset EXCEPT !.vec = << >>, !.posn = << >>,
                          !.last = <<"clear", 0>>]
  /\ UNCHANGED vsetFrame
VsNext == VsInsert \/ VsPushBack \/ VsErase \/ VsClear
SpecVs == VsInit /\ [][VsNext]_<<engineVars, otherVars>>

\* C40: count(v) is 1 exactly when v is an element of the sequence, and the
\* stored position of every element is its index, after any insert,
\* push_back, erase and clear; an erased value has count 0.
C40_CountIsMembership ==
  vset.pc = "ok" =>
    /\ \A val \in VsValues :
         count(vset, val) = 1 <=> (\E k \in 1..Len(vset.vec) : vset.vec[k] = val)
    /\ \A k \in 1..Len(vset.vec) : vset.posn[vset.vec[k]] = k - 1
\* The part of C40 that holds: as long as no value has been erased since
\* the last clear, count and positions are those of the sequence.
C40_UntilErase ==
  (vset.pc = "ok" /\ DOMAIN vset.posn = {vset.vec[k] : k \in 1..Len(vset.vec)}
     /\ Len(vset.vec) = Cardinality(DOMAIN vset.posn)) =>
    \A k \in 1..Len(vset.vec) : vset.posn[vset.vec[k]] = k - 1
\* What erase() does: it changes no entry of _posn, so that the erased value
\* keeps its count of 1.
C40_EraseKeepsPosn ==
  [][vset'.last[1] = "erase" => vset'.posn = vset.posn]_<<engineVars, otherVars>>
C40_Witness ==
  /\ vset.pc = "ok" /\ vset.last = <<"erase", 1>>
  /\ vset.vec = <<2>> /\ DOMAIN vset.posn = {1, 2}
  /\ vset.posn[2] = 1

====
